---- MODULE Spec2Model ----
(***************************************************************************)
(* Verification model of the agentic vessel-query pipeline                 *)
(* (src/agentic_pipeline): the conversational memory (MemoryManager), the  *)
(* stage graph of core/graph.py driven by main.run_query, and the          *)
(* loitering detector the graph calls.                                     *)
(*                                                                         *)
(* Python values are modelled type-uniformly: an Optional value is the     *)
(* empty sequence (None) or a one-element sequence <<x>>; a list is a      *)
(* sequence; a str is a TLA+ string, and where the code looks inside a     *)
(* string (lower(), `in`) the string's characters are given by Chars.      *)
(***************************************************************************)
EXTENDS Integers, Sequences, FiniteSets, TLC

VARIABLES
    mm,             \* a MemoryManager instance driven directly (api_server.py:34 style)
    appended,       \* history variable: every entry handed to mm.add_message, in call order
    resolved,       \* the value mm.resolve_references returned, when it was the last call (else NoCall)
    last_op,        \* name of the last MemoryManager operation applied to mm
    last_args,      \* the arguments of that operation when it was an update_*_context call
    node,           \* stage graph position: "idle", the node about to run, or "END"
    state,          \* the AgentState of the run in progress (core/state.py)
    db_manager,     \* module global _db_manager of core/graph.py: "None" or "DuckDBManager"
    services_built, \* the seven other service globals are assigned (graph.py:52-58)
    memory_manager, \* module global _memory_manager: None or Some(MemoryManager state)
    run_result,     \* what run_query returned for the last finished run: None or Some(dict)
    runs,           \* number of run_query calls started
    mem_at_start,   \* history variable: memory_manager when the current run started
    detector,       \* one detect_loitering call: its arguments and, once made, its result
    workers,        \* two workers calling one MemoryManager at once: each one's position
    rerun,          \* the collaborators' answers of the run in progress, and the run it repeats
    validation,     \* one PlanValidator.validate call: its intent and, once made, its list
    sessions        \* the session of the run in progress, and what a memory of its own
                    \* would hold for each session

memvars == <<mm, appended, resolved, last_op, last_args>>
graphvars == <<node, state, db_manager, services_built, memory_manager, run_result,
               runs, mem_at_start>>
\* the variables of the specifications that drive one function directly
othervars == <<detector, workers, rerun, validation, sessions>>
vars == <<mm, appended, resolved, last_op, last_args, node, state, db_manager, services_built,
          memory_manager, run_result, runs, mem_at_start, detector, workers, rerun,
          validation, sessions>>

(***************************************************************************)
(* Bounds of the model.                                                    *)
(***************************************************************************)
MaxHistory == 2     \* max_history values 0..MaxHistory are tried
MaxAppends == 4     \* add_message calls per MemoryManager lifetime
MaxRuns == 2        \* run_query calls per process

None == <<>>
Some(x) == <<x>>

(***************************************************************************)
(* Strings: the characters of the query texts the model uses, str.lower()  *)
(* and the substring test `sub in s`.                                      *)
(***************************************************************************)
Queries == {"show its trajectory", "SAME AGAIN", "List ships", "Wait", "Also show them"}

Chars(q) ==
    CASE q = "show its trajectory" ->
              <<"s","h","o","w"," ","i","t","s"," ","t","r","a","j","e","c","t","o","r","y">>
      [] q = "SAME AGAIN"     -> <<"S","A","M","E"," ","A","G","A","I","N">>
      [] q = "List ships"     -> <<"L","i","s","t"," ","s","h","i","p","s">>
      [] q = "Wait"           -> <<"W","a","i","t">>
      [] q = "Also show them" -> <<"A","l","s","o"," ","s","h","o","w"," ","t","h","e","m">>
      [] OTHER                -> [i \in 1..Len(q) |-> SubSeq(q, i, i)]

UpperCase == <<"A","B","C","D","E","F","G","H","I","J","K","L","M",
               "N","O","P","Q","R","S","T","U","V","W","X","Y","Z">>
LowerCase == <<"a","b","c","d","e","f","g","h","i","j","k","l","m",
               "n","o","p","q","r","s","t","u","v","w","x","y","z">>

lower_char(c) ==
    IF \E i \in 1..Len(UpperCase) : UpperCase[i] = c
    THEN LowerCase[CHOOSE i \in 1..Len(UpperCase) : UpperCase[i] = c]
    ELSE c

\* str.lower()
lower(s) == [i \in 1..Len(s) |-> lower_char(s[i])]

\* Python `sub in s` on strings: sub occurs as a contiguous substring of s
Contains(s, sub) ==
    \E i \in 0..(Len(s) - Len(sub)) : SubSeq(s, i + 1, i + Len(sub)) = sub

\* Python truthiness of an Optional[str]: None and "" are falsy
Truthy(opt) == opt # None /\ opt[1] # ""

(***************************************************************************)
(* MemoryManager  (services/memory_manager.py)                             *)
(***************************************************************************)
MemoryManager(max_history) ==
    [max_history            |-> max_history,
     conversation_history   |-> <<>>,
     last_mentioned_vessels |-> <<>>,
     last_intent            |-> None]

\* Python h[-n:] for n >= 0: -0 is 0, so h[-0:] is the whole list
TailSlice(h, n) ==
    IF n = 0 \/ n >= Len(h) THEN h ELSE SubSeq(h, Len(h) - n + 1, Len(h))

\* mutant: the trim keeps the oldest max_history entries instead of the newest
add_message_keep_oldest(self, role, content) ==
    LET h == Append(self.conversation_history, [role |-> role, content |-> content])
    IN  [self EXCEPT !.conversation_history =
            IF Len(h) > self.max_history THEN SubSeq(h, 1, self.max_history) ELSE h]

add_message(self, role, content) ==
    LET h == Append(self.conversation_history, [role |-> role, content |-> content])
    IN  [self EXCEPT !.conversation_history =
            IF Len(h) > self.max_history THEN TailSlice(h, self.max_history) ELSE h]

update_vessel_context(self, vessels) ==
    IF vessels # <<>> THEN [self EXCEPT !.last_mentioned_vessels = vessels] ELSE self

update_intent_context(self, intent) ==
    [self EXCEPT !.last_intent = Some(intent)]

pronouns ==
    { <<"i","t">>, <<"i","t","s">>, <<"t","h","e","m">>, <<"t","h","e","i","r">>,
      <<"t","h","a","t"," ","v","e","s","s","e","l">>,
      <<"t","h","o","s","e"," ","v","e","s","s","e","l","s">>,
      <<"t","h","e"," ","v","e","s","s","e","l">>,
      <<"t","h","e"," ","s","h","i","p">> }

intent_refs ==
    { <<"s","a","m","e">>, <<"a","g","a","i","n">>, <<"a","l","s","o">> }

has_pronoun(query_lower) == \E p \in pronouns : Contains(query_lower, p)

has_intent_ref(query_lower) == \E r \in intent_refs : Contains(query_lower, r)

\* mutant: the markers are searched in the query as typed, without lower()
resolve_references_case_sensitive(self, query) ==
    LET vessel_fired == has_pronoun(Chars(query)) /\ self.last_mentioned_vessels # <<>>
        intent_fired == has_intent_ref(Chars(query)) /\ Truthy(self.last_intent)
    IN  [vessels       |-> IF vessel_fired THEN self.last_mentioned_vessels ELSE <<>>,
         intent        |-> IF intent_fired THEN self.last_intent ELSE None,
         has_reference |-> vessel_fired \/ intent_fired]

resolve_references(self, query) ==
    LET query_lower  == lower(Chars(query))
        vessel_fired == has_pronoun(query_lower) /\ self.last_mentioned_vessels # <<>>
        intent_fired == has_intent_ref(query_lower) /\ Truthy(self.last_intent)
    IN  [vessels       |-> IF vessel_fired THEN self.last_mentioned_vessels ELSE <<>>,
         intent        |-> IF intent_fired THEN self.last_intent ELSE None,
         has_reference |-> vessel_fired \/ intent_fired]

clear(self) ==
    [self EXCEPT !.conversation_history = <<>>,
                 !.last_mentioned_vessels = <<>>,
                 !.last_intent = None]

(***************************************************************************)
(* SpecMemory: one MemoryManager, constructed with any max_history in      *)
(* 0..MaxHistory, driven through its public operations.                    *)
(***************************************************************************)
Entries == { [role |-> "user", content |-> "show its trajectory"],
             [role |-> "assistant", content |-> "No results found"] }
VesselLists == { <<>>, <<"111111111">>, <<"111111111", "222222222">> }
Domains == {"trajectory", "loitering", "prediction", "listing"}
\* the process before any run_query call (graph.py:28-35, all globals None)
GraphIdle ==
    /\ node = "idle"
    /\ state = None
    /\ db_manager = "None"
    /\ services_built = FALSE
    /\ memory_manager = None
    /\ run_result = None
    /\ runs = 0
    /\ mem_at_start = None

\* no detect_loitering call of its own in progress
DetectorIdle ==
    detector = [df |-> <<>>, speed_threshold |-> None, dwell_time_hours |-> None,
                events |-> None]

\* no worker is inside a MemoryManager call
WorkersIdle ==
    workers = [w \in {1, 2} |-> [call |-> 1, step |-> "idle", tmp |-> <<>>]]

\* no run with recorded answers in progress
NoAnswers == [planned |-> None, errors |-> <<>>, store_ok |-> TRUE, window |-> None]
RerunIdle == rerun = [answers |-> NoAnswers, first |-> None]

\* no validate call of its own in progress
ValidationIdle == validation = [intent |-> None, errors |-> None]

\* no run attributed to a session
SessionsIdle == sessions = [current |-> "", own |-> [s \in {"A", "B"} |-> None]]

NoArgs == [vessels |-> <<>>, intent |-> None]

NoCall == [query |-> "", result |-> [vessels |-> <<>>, intent |-> None, has_reference |-> FALSE]]

MemInit ==
    /\ mm \in { MemoryManager(m) : m \in 0..MaxHistory }
    /\ appended = <<>>
    /\ resolved = NoCall
    /\ last_op = "__init__"
    /\ last_args = NoArgs
    /\ GraphIdle
    /\ DetectorIdle
    /\ WorkersIdle
    /\ RerunIdle
    /\ ValidationIdle
    /\ SessionsIdle

AddMessage ==
    /\ Len(appended) < MaxAppends
    /\ \E e \in Entries :
          /\ mm' = add_message(mm, e.role, e.content)
          /\ appended' = Append(appended, e)
    /\ last_op' = "add_message"
    /\ last_args' = NoArgs
    /\ resolved' = NoCall
    /\ UNCHANGED <<graphvars, othervars>>

UpdateVesselContext ==
    /\ \E vessels \in VesselLists :
          /\ mm' = update_vessel_context(mm, vessels)
          /\ last_args' = [NoArgs EXCEPT !.vessels = vessels]
    /\ last_op' = "update_vessel_context"
    /\ resolved' = NoCall
    /\ UNCHANGED <<appended, graphvars, othervars>>

UpdateIntentContext ==
    /\ \E intent \in Domains :
          /\ mm' = update_intent_context(mm, intent)
          /\ last_args' = [NoArgs EXCEPT !.intent = Some(intent)]
    /\ last_op' = "update_intent_context"
    /\ resolved' = NoCall
    /\ UNCHANGED <<appended, graphvars, othervars>>

ResolveReferences ==
    /\ \E query \in Queries :
          resolved' = [query |-> query, result |-> resolve_references(mm, query)]
    /\ last_op' = "resolve_references"
    /\ last_args' = NoArgs
    /\ UNCHANGED <<mm, appended, graphvars, othervars>>

Clear ==
    /\ mm' = clear(mm)
    /\ appended' = <<>>
    /\ last_op' = "clear"
    /\ last_args' = NoArgs
    /\ resolved' = NoCall
    /\ UNCHANGED <<graphvars, othervars>>

MemNext ==
    \/ AddMessage
    \/ UpdateVesselContext
    \/ UpdateIntentContext
    \/ ResolveReferences
    \/ Clear

SpecMemory == MemInit /\ [][MemNext]_vars

(***************************************************************************)
(* Properties of the conversational memory (checked under SpecMemory).     *)
(***************************************************************************)
\* the k-th most recent of the entries handed to add_message (k = 1 is the newest)
KthMostRecent(k) == appended[Len(appended) - k + 1]

\* the last n entries handed to add_message, oldest first (none when n = 0)
MostRecent(n) ==
    IF n >= Len(appended) THEN appended
    ELSE SubSeq(appended, Len(appended) - n + 1, Len(appended))

\* C8: after every add_message call the transcript is no longer than max_history and
\* equals the most recently appended entries in their original order.
C8_TranscriptBounded ==
    /\ Len(mm.conversation_history) <= mm.max_history
    /\ mm.conversation_history = MostRecent(mm.max_history)

\* C9 as stated, on a memory whose maximum is at least 1 (a maximum of 0 is the case
\* of C8): once more than max_history entries were appended, the transcript holds
\* exactly max_history entries and its oldest one is the (max+1)-th most recent.
C9_OldestIsMaxPlusOne ==
    (mm.max_history >= 1 /\ Len(appended) > mm.max_history) =>
        /\ Len(mm.conversation_history) = mm.max_history
        /\ mm.conversation_history[1] = KthMostRecent(mm.max_history + 1)

\* C9 amended: for max_history >= 1, once more than max_history entries were appended
\* the transcript holds exactly max_history entries and its oldest one is the
\* max-th most recent entry appended.
C9_OldestIsMaxth ==
    (mm.max_history >= 1 /\ Len(appended) > mm.max_history) =>
        /\ Len(mm.conversation_history) = mm.max_history
        /\ mm.conversation_history[1] = KthMostRecent(mm.max_history)

\* an eviction happened, and the evicted entry differs from the oldest retained one
C9_Witness ==
    /\ last_op = "add_message"
    /\ mm.max_history >= 1
    /\ Len(appended) > mm.max_history
    /\ KthMostRecent(mm.max_history + 1) # KthMostRecent(mm.max_history)
    /\ mm.conversation_history[1] = KthMostRecent(mm.max_history)

\* the queries that, lower-cased, contain a pronoun marker / a continuation marker
\* (read off the query texts: "its", "it" inside "Wait", "them"; "same again", "also")
PronounQueries == {"show its trajectory", "Wait", "Also show them"}
ContinuationQueries == {"SAME AGAIN", "Also show them"}

\* C10: resolve returns the last-referenced vessels exactly when the query holds a
\* pronoun marker and a vessel list is stored, the last-referenced domain exactly
\* when it holds a continuation marker and a domain is stored, and has_reference iff
\* one of the two fired; with no stored context it returns the empty answer.
C10_ResolveReferences ==
    last_op = "resolve_references" =>
        LET r == resolved.result
            v == resolved.query \in PronounQueries /\ mm.last_mentioned_vessels # <<>>
            d == resolved.query \in ContinuationQueries /\ mm.last_intent # None
        IN  /\ r.vessels = (IF v THEN mm.last_mentioned_vessels ELSE <<>>)
            /\ r.intent = (IF d THEN mm.last_intent ELSE None)
            /\ r.has_reference = (v \/ d)
            /\ (mm.last_mentioned_vessels = <<>> /\ mm.last_intent = None) =>
                   r = [vessels |-> <<>>, intent |-> None, has_reference |-> FALSE]

\* 'show its trajectory' after the vessel context {"111111111"} was stored
C10_Witness ==
    /\ last_op = "resolve_references"
    /\ resolved.query = "show its trajectory"
    /\ mm.last_mentioned_vessels = <<"111111111">>
    /\ mm.last_intent = None
    /\ resolved.result = [vessels |-> <<"111111111">>, intent |-> None, has_reference |-> TRUE]

\* C11: after update_vessel_context(ids) the last-referenced vessel list equals ids,
\* for every ids including the empty list; after update_intent_context(domain) the
\* last-referenced domain equals domain; neither call changes the transcript.
C11_UpdateOverwrites ==
    /\ [](last_op = "update_vessel_context" =>
             mm.last_mentioned_vessels = last_args.vessels)
    /\ [](last_op = "update_intent_context" => mm.last_intent = last_args.intent)
    /\ [][last_op' \in {"update_vessel_context", "update_intent_context"} =>
             mm'.conversation_history = mm.conversation_history]_vars

(***************************************************************************)
(* Canonical intents (config/schemas.py) the planner may hand back.        *)
(***************************************************************************)
VesselIdentifier(imo, mmsi, name) == [imo |-> imo, mmsi |-> mmsi, name |-> name]

TimeRelative(expr) ==
    [mode |-> "relative", relative |-> Some(expr), start |-> None, end |-> None]
TimeAbsolute(start, end) ==
    [mode |-> "absolute", relative |-> None, start |-> Some(start), end |-> Some(end)]

NoSpatial ==
    [type |-> "none", distance_nm |-> None, polygon_type |-> None, polygon_id |-> None]
RawAis == [data_source |-> "raw_ais", model_name |-> None]

default_result_limit == 50

CanonicalIntent(domain, task, scope, vessels, time, format) ==
    [domain_intent      |-> domain,
     task_intent        |-> task,
     vessel_scope       |-> scope,
     vessels            |-> vessels,
     time_constraint    |-> time,
     spatial_constraint |-> NoSpatial,
     execution_mode     |-> RawAis,
     output             |-> [format |-> format, limit |-> default_result_limit]]

\* the planner's answers the model tries: one per domain, with a vessel of the
\* dataset, a vessel the dataset does not hold and a vessel given by name only
IntentTrajectory ==
    CanonicalIntent("trajectory", "show", "single",
        << VesselIdentifier(None, Some("111111111"), None) >>,
        TimeRelative("last_6h"), "table")
IntentLoitering ==
    CanonicalIntent("loitering", "detect", "all", <<>>, TimeRelative("last_week"), "table")
IntentListing ==
    CanonicalIntent("listing", "list", "all", <<>>, TimeRelative("today"), "summary")
IntentPrediction ==
    CanonicalIntent("prediction", "predict", "single",
        << VesselIdentifier(None, None, Some("INS Kolkata")) >>,
        TimeAbsolute("2020-01-05T00:00:00", "2020-01-12T23:59:59"), "map")
IntentMultiple ==
    CanonicalIntent("trajectory", "show", "multiple",
        << VesselIdentifier(None, Some("222222222"), None),
           VesselIdentifier(None, Some("999999999"), None) >>,
        TimeRelative("last_6h"), "map")

PlannerIntents ==
    {IntentTrajectory, IntentLoitering, IntentListing, IntentPrediction, IntentMultiple}

(***************************************************************************)
(* The position-record store (data/duckdb_manager.py) and its dataset.     *)
(* Timestamps are minutes, speeds tenths of a knot, coordinates hundredths *)
(* of a degree, so that the detector's arithmetic stays in the integers.   *)
(***************************************************************************)
TrackPoint(t, mmsi, lat, lon, sog) ==
    [timestamp |-> t, mmsi |-> mmsi, latitude |-> lat, longitude |-> lon, sog |-> sog]

\* the vessels of the dataset, in ascending MMSI order
DatasetVessels == << "111111111", "222222222" >>

\* vessel 111111111 drifts for five hours at 0.5 kn, vessel 222222222 transits at 15 kn
DatasetRows ==
    << TrackPoint(0,   "111111111", 1000, 7000, 5),
       TrackPoint(0,   "222222222", 1200, 7200, 150),
       TrackPoint(60,  "111111111", 1001, 7000, 5),
       TrackPoint(120, "111111111", 1002, 7001, 5),
       TrackPoint(150, "222222222", 1300, 7300, 150),
       TrackPoint(180, "111111111", 1001, 7001, 5),
       TrackPoint(240, "111111111", 1000, 7001, 5),
       TrackPoint(300, "111111111", 1002, 7000, 5),
       TrackPoint(300, "222222222", 1400, 7400, 150) >>

\* what the time window of a query selects of the dataset: all of it or nothing
StoreTables == { DatasetRows, <<>> }

InIds(ids, m) == \E i \in 1..Len(ids) : ids[i] = m

\* df.head(n) / LIMIT n
head(df, n) == IF Len(df) <= n THEN df ELSE SubSeq(df, 1, n)

\* DuckDBManager.fetch_trajectory on the rows the window selects: WHERE mmsi IN
\* (vessel_ids) ... ORDER BY timestamp LIMIT limit
fetch_trajectory(rows, vessel_ids, limit) ==
    head(SelectSeq(rows, LAMBDA r : InIds(vessel_ids, r.mmsi)), limit)

\* DuckDBManager.get_unique_vessels
get_unique_vessels == DatasetVessels

\* VesselResolver._verify_mmsi_exists, store_ok = FALSE when the count query faults
verify_mmsi_exists(mmsi, store_ok) == store_ok /\ InIds(DatasetVessels, mmsi)

\* VesselResolver.resolve: identifiers with an MMSI of the dataset are kept, all
\* others (unknown MMSI, IMO only, name only) are dropped
RECURSIVE resolve(_, _)
resolve(vessels, store_ok) ==
    IF vessels = <<>> THEN <<>>
    ELSE LET vessel == Head(vessels)
             rest   == resolve(Tail(vessels), store_ok)
         IN  IF Truthy(vessel.mmsi) /\ verify_mmsi_exists(vessel.mmsi[1], store_ok)
             THEN <<vessel.mmsi[1]>> \o rest
             ELSE rest

\* utils/validators.parse_relative_time: a window ending now (or at the end of the
\* named day); the clock is not modelled, the window is named by its expression
parse_relative_time(relative_expr) ==
    [start |-> <<"start of", relative_expr>>, end |-> <<"end of", relative_expr>>]

fromisoformat(text) == <<"datetime", text>>

(***************************************************************************)
(* LoiteringService.detect_loitering (services/loitering_service.py)       *)
(***************************************************************************)
loitering_speed_threshold_knots == 20   \* 2.0 knots, in tenths of a knot
loitering_dwell_time_hours == 240       \* 4.0 hours, in minutes
segment_gap == 60                       \* 1.0 hour, in minutes

\* Python `x or default` on an Optional number: None and 0 fall back to the default
OrDefault(opt, default) == IF opt # None /\ opt[1] # 0 THEN opt[1] ELSE default

\* group.sort_values('timestamp'): ascending by timestamp
RECURSIVE sort_values(_)
sort_values(rows) ==
    IF rows = <<>> THEN <<>>
    ELSE LET least == CHOOSE i \in 1..Len(rows) :
                         \A j \in 1..Len(rows) :
                            \/ rows[i].timestamp < rows[j].timestamp
                            \/ (rows[i].timestamp = rows[j].timestamp /\ i <= j)
             others == [k \in 1..(Len(rows) - 1) |->
                           IF k < least THEN rows[k] ELSE rows[k + 1]]
         IN  <<rows[least]>> \o sort_values(others)

\* mutant: a gap of exactly one hour starts a new event too
new_event_at_gap(group, i) ==
    i = 1 \/ group[i].timestamp - group[i - 1].timestamp >= segment_gap

\* event_id of the i-th row of a sorted group: the number of rows up to i that
\* start a new event (the first row, or a gap of more than one hour)
new_event(group, i) ==
    i = 1 \/ group[i].timestamp - group[i - 1].timestamp > segment_gap

event_id(group, i) == Cardinality({ j \in 1..i : new_event(group, j) })

RECURSIVE Sum(_, _)
Sum(rows, field) ==
    IF rows = <<>> THEN 0 ELSE rows[1][field] + Sum(Tail(rows), field)

\* one LoiteringEvent; a mean is kept as the pair <<sum, count>>
LoiteringEvent(mmsi, event_group) ==
    [mmsi             |-> mmsi,
     start_time       |-> event_group[1].timestamp,
     end_time         |-> event_group[Len(event_group)].timestamp,
     dwell_time_hours |-> event_group[Len(event_group)].timestamp - event_group[1].timestamp,
     center_latitude  |-> <<Sum(event_group, "latitude"), Len(event_group)>>,
     center_longitude |-> <<Sum(event_group, "longitude"), Len(event_group)>>,
     num_points       |-> Len(event_group),
     avg_speed        |-> <<Sum(event_group, "sog"), Len(event_group)>>]

\* mutant: an event needs a dwell time above the threshold, not at it
RECURSIVE group_events_strict_dwell(_, _, _, _)
group_events_strict_dwell(mmsi, group, id, dwell) ==
    IF id > event_id(group, Len(group)) THEN <<>>
    ELSE LET rows == SelectSeq(group, LAMBDA r :
                        \E i \in 1..Len(group) : group[i] = r /\ event_id(group, i) = id)
             rest == group_events_strict_dwell(mmsi, group, id + 1, dwell)
         IN  IF Len(rows) >= 2 /\ rows[Len(rows)].timestamp - rows[1].timestamp > dwell
             THEN <<LoiteringEvent(mmsi, rows)>> \o rest
             ELSE rest

\* the events of one vessel's sorted slow points, in event_id order from id on
RECURSIVE group_events(_, _, _, _)
group_events(mmsi, group, id, dwell) ==
    IF id > event_id(group, Len(group)) THEN <<>>
    ELSE LET event_group == SelectSeq([i \in 1..Len(group) |-> [row |-> group[i], id |-> event_id(group, i)]],
                                      LAMBDA x : x.id = id)
             rows == [i \in 1..Len(event_group) |-> event_group[i].row]
             rest == group_events(mmsi, group, id + 1, dwell)
         IN  IF Len(rows) >= 2 /\ rows[Len(rows)].timestamp - rows[1].timestamp >= dwell
             THEN <<LoiteringEvent(mmsi, rows)>> \o rest
             ELSE rest

\* the events of the vessels keys[k..], in key order (groupby sorts its keys)
RECURSIVE vessel_events(_, _, _, _)
vessel_events(df_slow, keys, k, dwell) ==
    IF k > Len(keys) THEN <<>>
    ELSE LET group == sort_values(SelectSeq(df_slow, LAMBDA r : r.mmsi = keys[k]))
             rest  == vessel_events(df_slow, keys, k + 1, dwell)
         IN  IF group = <<>> THEN rest
             ELSE group_events(keys[k], group, 1, dwell) \o rest

\* _apply_spatial_filter: both filters are placeholders that return df unchanged
apply_spatial_filter(df, spatial_constraint) == df

\* mutant: a point exactly at the speed threshold is kept
detect_loitering_keeping_threshold(df, speed_threshold, dwell_time_hours, spatial_constraint) ==
    IF df = <<>> THEN <<>>
    ELSE LET speed   == OrDefault(speed_threshold, loitering_speed_threshold_knots)
             dwell   == OrDefault(dwell_time_hours, loitering_dwell_time_hours)
             df_slow == SelectSeq(df, LAMBDA r : r.sog <= speed)
         IN  vessel_events(df_slow, DatasetVessels, 1, dwell)

detect_loitering(df, speed_threshold, dwell_time_hours, spatial_constraint) ==
    IF df = <<>> THEN <<>>
    ELSE LET speed   == OrDefault(speed_threshold, loitering_speed_threshold_knots)
             dwell   == OrDefault(dwell_time_hours, loitering_dwell_time_hours)
             df_slow == SelectSeq(df, LAMBDA r : r.sog < speed)
             events  == vessel_events(df_slow, DatasetVessels, 1, dwell)
         IN  IF df_slow = <<>> \/ events = <<>> THEN <<>>
             ELSE IF spatial_constraint # None /\ spatial_constraint[1].type # "none"
                  THEN apply_spatial_filter(events, spatial_constraint[1])
                  ELSE events

(***************************************************************************)
(* ResponseBuilder.build_response (services/response_builder.py).  The     *)
(* message text is kept without the numbers it formats; `count` has them.  *)
(***************************************************************************)
build_table_response(df) ==
    [format |-> "table", data |-> df, count |-> Len(df), message |-> "Found results"]

HasCoordinates(df) == "latitude" \in DOMAIN df[1] /\ "longitude" \in DOMAIN df[1]

build_map_response(df) ==
    IF ~HasCoordinates(df) THEN build_table_response(df)
    ELSE [format |-> "map", data |-> df, count |-> Len(df), message |-> "Found points"]

build_summary(df) ==
    [format |-> "summary", data |-> <<>>, count |-> Len(df), message |-> "Found records"]

\* df is None or Some(table)
build_response(df, output_format, limit) ==
    IF df = None \/ df[1] = <<>>
    THEN [format |-> output_format, data |-> <<>>, count |-> 0,
          message |-> "No results found"]
    ELSE LET df_limited == head(df[1], limit)
         IN  CASE output_format = "table"   -> build_table_response(df_limited)
               [] output_format = "map"     -> build_map_response(df_limited)
               [] output_format = "summary" -> build_summary(df_limited)
               [] OTHER                     -> build_table_response(df_limited)

(***************************************************************************)
(* utils/validators.py and PlanValidator.validate                          *)
(* (services/plan_validator.py).  Messages and the serialised intent are   *)
(* the strings the code builds.                                            *)
(***************************************************************************)
Digits == <<"0","1","2","3","4","5","6","7","8","9">>
Whitespace == {" ", "\t", "\n", "\r"}

IsDigit(c) == \E i \in 1..10 : Digits[i] = c
DigitValue(c) == (CHOOSE i \in 1..10 : Digits[i] = c) - 1

\* str.strip(): the characters of s without leading and trailing whitespace
strip(s) ==
    LET keep == { i \in 1..Len(s) : s[i] \notin Whitespace }
    IN  IF keep = {} THEN <<>>
        ELSE SubSeq(s, CHOOSE i \in keep : \A j \in keep : i <= j,
                       CHOOSE i \in keep : \A j \in keep : i >= j)

validate_mmsi(mmsi) ==
    /\ mmsi # ""
    /\ LET m == strip(Chars(mmsi))
       IN  Len(m) = 9 /\ \A i \in 1..9 : IsDigit(m[i])

\* the number written by the digits s[from..to], None when one is not a digit
RECURSIVE Number(_, _, _)
Number(s, from, to) ==
    IF from > to THEN Some(0)
    ELSE LET high == Number(s, from, to - 1)
         IN  IF high = None \/ ~IsDigit(s[to]) THEN None
             ELSE Some(high[1] * 10 + DigitValue(s[to]))

DaysInMonth(y, m) ==
    IF m \in {4, 6, 9, 11} THEN 30
    ELSE IF m # 2 THEN 31
    ELSE IF (y % 4 = 0 /\ y % 100 # 0) \/ y % 400 = 0 THEN 29 ELSE 28

\* datetime.fromisoformat on 'YYYY-MM-DD' and 'YYYY-MM-DDTHH:MM:SS': the datetime as
\* <<year, month, day, hour, minute, second>>, None when the call raises ValueError
parse_iso(text) ==
    LET s == Chars(text)
        n == Len(s)
        y == Number(s, 1, 4)    mo == Number(s, 6, 7)    d == Number(s, 9, 10)
        h == Number(s, 12, 13)  mi == Number(s, 15, 16)  sec == Number(s, 18, 19)
        date_ok == /\ n \in {10, 19} /\ s[5] = "-" /\ s[8] = "-"
                   /\ y # None /\ mo # None /\ d # None
                   /\ y[1] >= 1 /\ mo[1] \in 1..12 /\ d[1] \in 1..DaysInMonth(y[1], mo[1])
        time_ok == /\ s[11] \in {"T", " "} /\ s[14] = ":" /\ s[17] = ":"
                   /\ h # None /\ mi # None /\ sec # None
                   /\ h[1] < 24 /\ mi[1] < 60 /\ sec[1] < 60
    IN  IF n = 10 /\ date_ok THEN Some(<<y[1], mo[1], d[1], 0, 0, 0>>)
        ELSE IF n = 19 /\ date_ok /\ time_ok
             THEN Some(<<y[1], mo[1], d[1], h[1], mi[1], sec[1]>>)
        ELSE None

\* datetime `<`: lexicographic on <<year, ..., second>>
datetime_less(a, b) ==
    \E i \in 1..6 : a[i] < b[i] /\ \A j \in 1..(i - 1) : a[j] = b[j]

\* mutant: a start equal to the end is accepted
validate_time_range_allowing_equal(start, end) ==
    /\ Truthy(start) /\ Truthy(end)
    /\ parse_iso(start[1]) # None /\ parse_iso(end[1]) # None
    /\ ~datetime_less(parse_iso(end[1])[1], parse_iso(start[1])[1])

\* start and end are Optional[str]
validate_time_range(start, end) ==
    /\ Truthy(start) /\ Truthy(end)
    /\ parse_iso(start[1]) # None /\ parse_iso(end[1]) # None
    /\ datetime_less(parse_iso(start[1])[1], parse_iso(end[1])[1])

\* str() of a non-negative int
RECURSIVE str_int(_)
str_int(n) == IF n < 10 THEN Digits[n + 1] ELSE str_int(n \div 10) \o Digits[(n % 10) + 1]

\* repr of an Optional[str] (no quote characters inside the values used)
repr_str(opt) == IF opt = None THEN "None" ELSE "'" \o opt[1] \o "'"

\* repr of an Optional[float] holding a whole number
repr_float(opt) ==
    IF opt = None THEN "None"
    ELSE IF opt[1] < 0 THEN "-" \o str_int(-opt[1]) \o ".0" ELSE str_int(opt[1]) \o ".0"

repr_vessel(v) ==
    "{'imo': " \o repr_str(v.imo) \o ", 'mmsi': " \o repr_str(v.mmsi)
        \o ", 'name': " \o repr_str(v.name) \o "}"

RECURSIVE repr_vessels(_)
repr_vessels(vessels) ==
    IF vessels = <<>> THEN ""
    ELSE IF Len(vessels) = 1 THEN repr_vessel(vessels[1])
    ELSE repr_vessel(vessels[1]) \o ", " \o repr_vessels(Tail(vessels))

\* str(intent.to_dict()): the dict of model_dump(), keys included
str_to_dict(intent) ==
    "{'domain_intent': '" \o intent.domain_intent
    \o "', 'task_intent': '" \o intent.task_intent
    \o "', 'vessel_scope': '" \o intent.vessel_scope
    \o "', 'vessels': [" \o repr_vessels(intent.vessels)
    \o "], 'time_constraint': {'mode': '" \o intent.time_constraint.mode
    \o "', 'relative': " \o repr_str(intent.time_constraint.relative)
    \o ", 'start': " \o repr_str(intent.time_constraint.start)
    \o ", 'end': " \o repr_str(intent.time_constraint.end)
    \o "}, 'spatial_constraint': {'type': '" \o intent.spatial_constraint.type
    \o "', 'distance_nm': " \o repr_float(intent.spatial_constraint.distance_nm)
    \o ", 'polygon_type': " \o repr_str(intent.spatial_constraint.polygon_type)
    \o ", 'polygon_id': " \o repr_str(intent.spatial_constraint.polygon_id)
    \o "}, 'execution_mode': {'data_source': '" \o intent.execution_mode.data_source
    \o "', 'model_name': " \o repr_str(intent.execution_mode.model_name)
    \o "}, 'output': {'format': '" \o intent.output.format
    \o "', 'limit': " \o str_int(intent.output.limit) \o "}}"

unsafe_keywords == <<"exec", "eval", "import", "os.", "subprocess", "__">>

\* the messages of one rule: msg when the rule is broken, nothing otherwise
When(broken, msg) == IF broken THEN <<msg>> ELSE <<>>

RECURSIVE mmsi_errors(_)
mmsi_errors(vessels) ==
    IF vessels = <<>> THEN <<>>
    ELSE When(Truthy(vessels[1].mmsi) /\ ~validate_mmsi(vessels[1].mmsi[1]),
              "Invalid MMSI format: " \o vessels[1].mmsi[1])
         \o mmsi_errors(Tail(vessels))

RECURSIVE keyword_errors(_, _)
keyword_errors(query_str, k) ==
    IF k > Len(unsafe_keywords) THEN <<>>
    ELSE When(Contains(query_str, unsafe_keywords[k]),
              "Unsafe keyword detected: " \o unsafe_keywords[k])
         \o keyword_errors(query_str, k + 1)

\* rule 1, plan_validator.py:44-52
vessel_scope_errors(intent) ==
       When(intent.vessel_scope = "single" /\ Len(intent.vessels) # 1,
            "vessel_scope is 'single' but vessels list does not contain exactly 1 vessel")
    \o When(intent.vessel_scope = "multiple" /\ Len(intent.vessels) < 2,
            "vessel_scope is 'multiple' but vessels list contains less than 2 vessels")
    \o When(intent.vessel_scope = "all" /\ Len(intent.vessels) > 0,
            "vessel_scope is 'all' but vessels list is not empty")

\* rule 3, plan_validator.py:59-68
time_errors(tc) ==
       When(tc.mode = "relative" /\ ~Truthy(tc.relative),
            "Time mode is 'relative' but no relative expression provided")
    \o When(tc.mode = "absolute" /\ (~Truthy(tc.start) \/ ~Truthy(tc.end)),
            "Time mode is 'absolute' but start/end not provided")
    \o When(tc.mode = "absolute" /\ Truthy(tc.start) /\ Truthy(tc.end)
               /\ ~validate_time_range(tc.start, tc.end),
            "Invalid time range: start must be before end")

\* rule 4, plan_validator.py:70-77
spatial_errors(sc) ==
       When(sc.type = "coastal_distance"
               /\ (sc.distance_nm = None \/ sc.distance_nm[1] <= 0),
            "Spatial type is 'coastal_distance' but distance_nm is invalid")
    \o When(sc.type = "polygon" /\ ~Truthy(sc.polygon_type),
            "Spatial type is 'polygon' but polygon_type not provided")

\* rule 5, plan_validator.py:79-82
execution_mode_errors(em) ==
    When(em.data_source = "model_inference" /\ ~Truthy(em.model_name),
         "Execution mode is 'model_inference' but model_name not provided")

\* rule 6, plan_validator.py:84-89
compatibility_errors(intent) ==
       When(intent.domain_intent = "loitering" /\ intent.task_intent \notin {"detect", "show"},
            "Incompatible: domain_intent 'loitering' with task_intent '"
                \o intent.task_intent \o "'")
    \o When(intent.domain_intent = "prediction" /\ intent.task_intent # "predict",
            "Incompatible: domain_intent 'prediction' with task_intent '"
                \o intent.task_intent \o "'")

\* mutant: validate returns at the first rule that is broken
validate_short_circuit(intent) ==
    LET lists == << vessel_scope_errors(intent), mmsi_errors(intent.vessels),
                    time_errors(intent.time_constraint),
                    spatial_errors(intent.spatial_constraint),
                    execution_mode_errors(intent.execution_mode),
                    compatibility_errors(intent),
                    keyword_errors(str_to_dict(intent), 1) >>
        broken == { k \in 1..7 : lists[k] # <<>> }
    IN  IF broken = {} THEN <<>>
        ELSE lists[CHOOSE k \in broken : \A j \in broken : k <= j]

\* mutant: validate without the scope/list cardinality rule
validate_without_cardinality(intent) ==
       mmsi_errors(intent.vessels)
    \o time_errors(intent.time_constraint)
    \o spatial_errors(intent.spatial_constraint)
    \o execution_mode_errors(intent.execution_mode)
    \o compatibility_errors(intent)
    \o keyword_errors(str_to_dict(intent), 1)

\* mutant: validate without the denylist scan
validate_without_denylist(intent) ==
       vessel_scope_errors(intent)
    \o mmsi_errors(intent.vessels)
    \o time_errors(intent.time_constraint)
    \o spatial_errors(intent.spatial_constraint)
    \o execution_mode_errors(intent.execution_mode)
    \o compatibility_errors(intent)

validate(intent) ==
       vessel_scope_errors(intent)
    \o mmsi_errors(intent.vessels)
    \o time_errors(intent.time_constraint)
    \o spatial_errors(intent.spatial_constraint)
    \o execution_mode_errors(intent.execution_mode)
    \o compatibility_errors(intent)
    \o keyword_errors(str_to_dict(intent), 1)

is_valid(intent) == Len(validate(intent)) = 0

(***************************************************************************)
(* AgentState (core/state.py) and the nodes of the stage graph             *)
(* (core/graph.py).  A log entry is a tuple whose first element is the     *)
(* fixed text and whose other elements are the values formatted into it;   *)
(* an error is Some(tuple) built the same way.                             *)
(***************************************************************************)
max_conversation_history == 10

create_initial_state(query, history, model_name) ==
    [user_query           |-> query,
     conversation_history |-> history,
     canonical_intent     |-> None,
     validation_errors    |-> <<>>,
     vessel_ids           |-> <<>>,
     resolved_time_range  |-> None,
     dataframe            |-> None,
     result               |-> None,
     execution_log        |-> <<>>,
     error                |-> None,
     model_name           |-> model_name]

Log(s, entry) == [s EXCEPT !.execution_log = Append(@, entry)]
Fail(s, text) == [s EXCEPT !.error = Some(<<text>>)]
InLog(s, text) == \E i \in 1..Len(s.execution_log) : s.execution_log[i][1] = text

\* mutant: the first trace entry tells how long the memory's transcript is
resolve_references_node_logging_transcript(s, memory) ==
    IF memory = None
    THEN Fail(Log(s, <<"Resolving references">>), "Reference resolution failed")
    ELSE LET s1 == Log(s, <<"Resolving references", Len(memory[1].conversation_history)>>)
             r  == resolve_references(memory[1], s.user_query)
         IN  IF r.has_reference THEN Log(s1, <<"Resolved references", r>>) ELSE s1

\* memory is the _memory_manager handle: None makes the call raise AttributeError
resolve_references_node(s, memory) ==
    LET s1 == Log(s, <<"Resolving references">>)
    IN  IF memory = None THEN Fail(s1, "Reference resolution failed")
        ELSE LET r == resolve_references(memory[1], s.user_query)
             IN  IF r.has_reference THEN Log(s1, <<"Resolved references", r>>) ELSE s1

\* mutant: a planner fault is answered with a default intent instead of an error
parse_intent_node_default_intent(s, built, planned) ==
    LET s1 == Log(s, <<"Parsing intent with LLM">>)
    IN  IF ~built \/ planned = None
        THEN [s1 EXCEPT !.canonical_intent = Some(IntentListing)]
        ELSE Log([s1 EXCEPT !.canonical_intent = planned],
                 <<"Intent", planned[1].domain_intent, planned[1].task_intent>>)

\* planned is what IntentParser.parse did: None when it raised, else Some(intent)
parse_intent_node(s, built, planned) ==
    LET s1 == Log(s, <<"Parsing intent with LLM">>)
    IN  IF ~built \/ planned = None THEN Fail(s1, "Intent parsing failed")
        ELSE Log([s1 EXCEPT !.canonical_intent = planned],
                 <<"Intent", planned[1].domain_intent, planned[1].task_intent>>)

\* mutant: error is write-once, a fault of ValidatePlan leaves an earlier error alone
validate_plan_node_keeping_error(s, built, errors) ==
    LET s1 == Log(s, <<"Validating plan">>)
    IN  IF ~built \/ s.canonical_intent = None
        THEN IF s.error # None THEN s1 ELSE Fail(s1, "Plan validation failed")
        ELSE LET s2 == [s1 EXCEPT !.validation_errors = errors]
             IN  IF errors # <<>>
                 THEN [s2 EXCEPT !.error = Some(<<"Validation failed", errors>>)]
                 ELSE Log(s2, <<"Plan validated successfully">>)

\* errors is the list PlanValidator.validate returned; on a None intent validate
\* raises (attribute access on None) whatever it would have returned
validate_plan_node(s, built, errors) ==
    LET s1 == Log(s, <<"Validating plan">>)
    IN  IF ~built \/ s.canonical_intent = None
        THEN Fail(s1, "Plan validation failed")
        ELSE LET s2 == [s1 EXCEPT !.validation_errors = errors]
             IN  IF errors # <<>>
                 THEN [s2 EXCEPT !.error = Some(<<"Validation failed", errors>>)]
                 ELSE Log(s2, <<"Plan validated successfully">>)

\* store_ok is FALSE when the store's vessel queries fault
resolve_vessels_node(s, store_ok) ==
    LET s1 == Log(s, <<"Resolving vessel identifiers">>)
    IN  IF s.canonical_intent = None THEN Fail(s1, "Vessel resolution failed")
        ELSE
        LET intent == s.canonical_intent[1]
        IN  IF intent.vessel_scope = "all" /\ ~store_ok
            THEN Fail(s1, "Vessel resolution failed")
            ELSE
            LET vessel_ids == IF intent.vessel_scope = "all" THEN get_unique_vessels
                              ELSE resolve(intent.vessels, store_ok)
                s2 == Log([s1 EXCEPT !.vessel_ids = vessel_ids],
                          <<"Resolved vessel(s)", Len(vessel_ids)>>)
                tc == intent.time_constraint
            IN  IF tc.mode = "relative"
                THEN IF tc.relative = None THEN Fail(s2, "Vessel resolution failed")
                     ELSE LET range == parse_relative_time(tc.relative[1])
                          IN  Log([s2 EXCEPT !.resolved_time_range = Some(range)],
                                  <<"Time range", range.start, range.end>>)
                ELSE IF tc.start = None \/ tc.end = None
                     THEN Fail(s2, "Vessel resolution failed")
                     ELSE [s2 EXCEPT !.resolved_time_range =
                              Some([start |-> fromisoformat(tc.start[1]),
                                    end   |-> fromisoformat(tc.end[1])])]

\* window is what the store did with the query: None when it faulted, else
\* Some(rows of the dataset inside the time window)
trajectory_pipeline_node(s, window) ==
    LET s1 == Log(s, <<"Fetching trajectory data">>)
    IN  IF s.canonical_intent = None \/ s.resolved_time_range = None \/ window = None
        THEN Fail(s1, "Trajectory fetch failed")
        ELSE LET df == fetch_trajectory(window[1], s.vessel_ids,
                                        s.canonical_intent[1].output.limit)
             IN  Log([s1 EXCEPT !.dataframe = Some(df)],
                     <<"Fetched trajectory points", Len(df)>>)

loitering_pipeline_node(s, window) ==
    LET s1 == Log(s, <<"Detecting loitering">>)
    IN  IF s.canonical_intent = None \/ s.resolved_time_range = None \/ window = None
        THEN Fail(s1, "Loitering detection failed")
        ELSE LET df == fetch_trajectory(window[1], s.vessel_ids,
                                        s.canonical_intent[1].output.limit * 10)
                 loitering_df == detect_loitering(df, None, None,
                                     Some(s.canonical_intent[1].spatial_constraint))
             IN  Log([s1 EXCEPT !.dataframe = Some(loitering_df)],
                     <<"Detected loitering events", Len(loitering_df)>>)

\* the memory update at the end of response_builder_node (graph.py:308-312)
update_memory(self, s, response) ==
    update_intent_context(
        update_vessel_context(
            add_message(add_message(self, "user", s.user_query),
                        "assistant", response.message),
            s.vessel_ids),
        s.canonical_intent[1].domain_intent)

\* the AgentState response_builder_node returns
response_builder_node(s, memory) ==
    LET s1 == Log(s, <<"Building response">>)
    IN  IF s.canonical_intent = None THEN Fail(s1, "Response building failed")
        ELSE LET response == build_response(s.dataframe,
                                            s.canonical_intent[1].output.format,
                                            s.canonical_intent[1].output.limit)
                 s2 == Log([s1 EXCEPT !.result = Some(response)],
                           <<"Response built successfully">>)
             IN  IF memory = None THEN Fail(s2, "Response building failed") ELSE s2

\* the _memory_manager state response_builder_node leaves behind
response_builder_memory(s, memory) ==
    IF s.canonical_intent = None \/ memory = None THEN memory
    ELSE Some(update_memory(memory[1], s,
                 build_response(s.dataframe, s.canonical_intent[1].output.format,
                                s.canonical_intent[1].output.limit)))

\* mutant: the edge looks at the violation list only, not at error
should_continue_ignoring_error(s) ==
    IF s.validation_errors # <<>> THEN "error" ELSE "continue"

should_continue_after_validation(s) ==
    IF s.error # None \/ s.validation_errors # <<>> THEN "error" ELSE "continue"

\* mutant: the prediction fallback is sent to the loitering pipeline
route_by_domain_prediction_to_loitering(s) ==
    LET domain == s.canonical_intent[1].domain_intent
    IN  IF domain \in {"trajectory", "listing"} THEN "trajectory" ELSE "loitering"

route_by_domain(s) ==
    LET domain == s.canonical_intent[1].domain_intent
    IN  IF domain \in {"trajectory", "listing"} THEN "trajectory"
        ELSE IF domain = "loitering" THEN "loitering"
        ELSE IF domain = "prediction" THEN "trajectory"
        ELSE "trajectory"

\* the edge tables of create_orchestration_graph
edge_after_validation(s) ==
    IF should_continue_after_validation(s) = "error" THEN "END" ELSE "resolve_vessels"

edge_after_resolve_vessels(s) ==
    IF route_by_domain(s) = "trajectory" THEN "trajectory_pipeline"
    ELSE "loitering_pipeline"

(***************************************************************************)
(* Spec: the process serving run_query calls one after another.  Each step *)
(* runs the node the graph is at and follows its outgoing edge.  What the  *)
(* collaborators answer (planner, validator, store) is chosen freely.      *)
(***************************************************************************)
GraphQueries == {"show its trajectory", "List ships", "Also show them"}

\* the violation lists PlanValidator.validate may hand to the graph
ViolationLists ==
    { <<>>,
      <<"vessel_scope is 'all' but vessels list is not empty">>,
      <<"Invalid MMSI format", "Unsafe keyword detected">> }

StageNodes == {"resolve_references", "parse_intent", "validate_plan", "resolve_vessels",
               "trajectory_pipeline", "loitering_pipeline", "response_builder"}

\* _initialize_services ran to its end (or had nothing to do): the handles after it
built_after_init == IF db_manager = "None" THEN TRUE ELSE services_built
memory_after_init ==
    IF db_manager = "None" THEN Some(MemoryManager(max_conversation_history))
    ELSE memory_manager

InitializeServices ==
    /\ db_manager' = "DuckDBManager"
    /\ services_built' = built_after_init

GraphInit ==
    /\ GraphIdle
    /\ DetectorIdle
    /\ WorkersIdle
    /\ RerunIdle
    /\ ValidationIdle
    /\ SessionsIdle
    /\ mm = MemoryManager(max_conversation_history)
    /\ appended = <<>>
    /\ resolved = NoCall
    /\ last_op = "__init__"
    /\ last_args = NoArgs

\* main.run_query up to graph.invoke
RunQuery ==
    /\ node = "idle"
    /\ runs < MaxRuns
    /\ \E query \in GraphQueries : state' = Some(create_initial_state(query, <<>>, "llama3"))
    /\ node' = "resolve_references"
    /\ runs' = runs + 1
    /\ run_result' = None
    /\ mem_at_start' = memory_manager
    /\ UNCHANGED <<db_manager, services_built, memory_manager, memvars, othervars>>

\* _initialize_services raises at the top of a node: DuckDBManager() failed (nothing
\* assigned) or the parquet registration failed (_db_manager stays assigned); the
\* exception leaves graph.invoke and run_query returns its except-branch dict
ServiceInitFault ==
    /\ node \in StageNodes
    /\ db_manager = "None"
    /\ \E fault \in {"DuckDB connect failed", "Parquet registration failed"} :
          /\ db_manager' = IF fault = "DuckDB connect failed" THEN "None" ELSE "DuckDBManager"
          /\ run_result' = Some([success          |-> FALSE,
                                 result           |-> None,
                                 execution_log    |-> <<>>,
                                 error            |-> Some(<<fault>>),
                                 canonical_intent |-> None,
                                 vessel_count     |-> 0])
    /\ node' = "idle"
    /\ UNCHANGED <<state, services_built, memory_manager, runs, mem_at_start, memvars, othervars>>

ResolveReferencesNode ==
    /\ node = "resolve_references"
    /\ InitializeServices
    /\ state' = Some(resolve_references_node(state[1], memory_after_init))
    /\ memory_manager' = memory_after_init
    /\ node' = "parse_intent"
    /\ UNCHANGED <<run_result, runs, mem_at_start, memvars, othervars>>

ParseIntentNode ==
    /\ node = "parse_intent"
    /\ InitializeServices
    /\ \E planned \in {None} \cup { Some(i) : i \in PlannerIntents } :
          state' = Some(parse_intent_node(state[1], built_after_init, planned))
    /\ memory_manager' = memory_after_init
    /\ node' = "validate_plan"
    /\ UNCHANGED <<run_result, runs, mem_at_start, memvars, othervars>>

ValidatePlanNode ==
    /\ node = "validate_plan"
    /\ InitializeServices
    /\ \E errors \in ViolationLists :
          state' = Some(validate_plan_node(state[1], built_after_init, errors))
    /\ memory_manager' = memory_after_init
    /\ node' = edge_after_validation(state'[1])
    /\ UNCHANGED <<run_result, runs, mem_at_start, memvars, othervars>>

ResolveVesselsNode ==
    /\ node = "resolve_vessels"
    /\ InitializeServices
    /\ \E store_ok \in BOOLEAN :
          state' = Some(resolve_vessels_node(state[1], store_ok))
    /\ memory_manager' = memory_after_init
    /\ node' = edge_after_resolve_vessels(state'[1])
    /\ UNCHANGED <<run_result, runs, mem_at_start, memvars, othervars>>

TrajectoryPipelineNode ==
    /\ node = "trajectory_pipeline"
    /\ InitializeServices
    /\ \E window \in {None} \cup { Some(t) : t \in StoreTables } :
          state' = Some(trajectory_pipeline_node(state[1], window))
    /\ memory_manager' = memory_after_init
    /\ node' = "response_builder"
    /\ UNCHANGED <<run_result, runs, mem_at_start, memvars, othervars>>

LoiteringPipelineNode ==
    /\ node = "loitering_pipeline"
    /\ InitializeServices
    /\ \E window \in {None} \cup { Some(t) : t \in StoreTables } :
          state' = Some(loitering_pipeline_node(state[1], window))
    /\ memory_manager' = memory_after_init
    /\ node' = "response_builder"
    /\ UNCHANGED <<run_result, runs, mem_at_start, memvars, othervars>>

ResponseBuilderNode ==
    /\ node = "response_builder"
    /\ InitializeServices
    /\ state' = Some(response_builder_node(state[1], memory_after_init))
    /\ memory_manager' = response_builder_memory(state[1], memory_after_init)
    /\ node' = "END"
    /\ UNCHANGED <<run_result, runs, mem_at_start, memvars, othervars>>

\* main.run_query after graph.invoke returned the final state
ReturnResult ==
    /\ node = "END"
    /\ run_result' = Some([success          |-> state[1].error = None,
                           result           |-> state[1].result,
                           execution_log    |-> state[1].execution_log,
                           error            |-> state[1].error,
                           canonical_intent |-> state[1].canonical_intent,
                           vessel_count     |-> Len(state[1].vessel_ids)])
    /\ node' = "idle"
    /\ UNCHANGED <<state, db_manager, services_built, memory_manager, runs,
                   mem_at_start, memvars, othervars>>

Next ==
    \/ RunQuery
    \/ ServiceInitFault
    \/ ResolveReferencesNode
    \/ ParseIntentNode
    \/ ValidatePlanNode
    \/ ResolveVesselsNode
    \/ TrajectoryPipelineNode
    \/ LoiteringPipelineNode
    \/ ResponseBuilderNode
    \/ ReturnResult

Spec == GraphInit /\ [][Next]_vars

(***************************************************************************)
(* SpecShipped: the same process with PlanValidator.validate itself        *)
(* answering ValidatePlan.  Every serialised intent holds the key          *)
(* 'execution_mode', so validate never returns the empty list and the      *)
(* nodes after the post-validation edge have no step here.                 *)
(***************************************************************************)
VesselGood    == VesselIdentifier(None, Some("111111111"), None)
VesselShort   == VesselIdentifier(None, Some("12345678"), None)
VesselPadded  == VesselIdentifier(None, Some(" 222222222 "), None)
VesselUnknown == VesselIdentifier(None, Some("999999999"), None)
VesselNamed   == VesselIdentifier(None, None, Some("__import__"))

IntentVesselLists ==
    { <<>>, <<VesselGood>>, <<VesselShort>>, <<VesselUnknown>>,
      <<VesselGood, VesselPadded>>, <<VesselNamed, VesselGood, VesselUnknown>> }

IntentTimes ==
    { TimeRelative("last_week"),
      [TimeRelative("last_week") EXCEPT !.relative = None],
      TimeAbsolute("2020-01-05T00:00:00", "2020-01-12T23:59:59"),
      TimeAbsolute("2020-01-12T23:59:59", "2020-01-05") }

IntentSpatials == { NoSpatial, [NoSpatial EXCEPT !.type = "coastal_distance"] }

IntentExecutionModes == { RawAis, [RawAis EXCEPT !.data_source = "model_inference"] }

IntentDomainTasks ==
    { <<"trajectory", "show">>, <<"loitering", "detect">>,
      <<"loitering", "list">>, <<"prediction", "show">> }

\* the structured intents handed to validate: every combination of the above
ValidatorIntents ==
    { [CanonicalIntent(dt[1], dt[2], scope, vessels, time, "table")
          EXCEPT !.spatial_constraint = spatial, !.execution_mode = mode] :
        dt \in IntentDomainTasks, scope \in {"single", "multiple", "all"},
        vessels \in IntentVesselLists, time \in IntentTimes,
        spatial \in IntentSpatials, mode \in IntentExecutionModes }

ParseIntentShipped ==
    /\ node = "parse_intent"
    /\ InitializeServices
    /\ \E planned \in {None} \cup { Some(i) : i \in ValidatorIntents \cup PlannerIntents } :
          state' = Some(parse_intent_node(state[1], built_after_init, planned))
    /\ memory_manager' = memory_after_init
    /\ node' = "validate_plan"
    /\ UNCHANGED <<run_result, runs, mem_at_start, memvars, othervars>>

ValidatePlanShipped ==
    /\ node = "validate_plan"
    /\ InitializeServices
    /\ state' = Some(validate_plan_node(state[1], built_after_init,
                        IF state[1].canonical_intent = None THEN <<>>
                        ELSE validate(state[1].canonical_intent[1])))
    /\ memory_manager' = memory_after_init
    /\ node' = edge_after_validation(state'[1])
    /\ UNCHANGED <<run_result, runs, mem_at_start, memvars, othervars>>

NextShipped ==
    \/ RunQuery
    \/ ServiceInitFault
    \/ ResolveReferencesNode
    \/ ParseIntentShipped
    \/ ValidatePlanShipped
    \/ ReturnResult

SpecShipped == GraphInit /\ [][NextShipped]_vars

(***************************************************************************)
(* SpecDetector: one call of LoiteringService.detect_loitering on a track  *)
(* table drawn from DetectorTables, with the dwell threshold omitted or    *)
(* supplied.                                                               *)
(***************************************************************************)
\* the minutes at which vessel 111111111 may have a slow point
GridMinutes == {0, 30, 60, 120, 180, 240, 300, 361}

RECURSIVE slow_track(_, _)
slow_track(mmsi, minutes) ==
    IF minutes = {} THEN <<>>
    ELSE LET t == CHOOSE x \in minutes : \A y \in minutes : x <= y
         IN  <<TrackPoint(t, mmsi, 1000, 7000, 5)>> \o slow_track(mmsi, minutes \ {t})

\* tables as the store returns them (ordered by timestamp): any slow points of
\* vessel 111111111 on the grid, alone or with two slow points of vessel 222222222
DetectorTables ==
    { sort_values(slow_track("111111111", minutes) \o other) :
        minutes \in SUBSET GridMinutes,
        other \in { <<>>, slow_track("222222222", {90, 150}) } }

DwellArguments == { None, Some(120) }

DetectorInit ==
    /\ GraphIdle
    /\ WorkersIdle
    /\ RerunIdle
    /\ ValidationIdle
    /\ SessionsIdle
    /\ mm = MemoryManager(max_conversation_history)
    /\ appended = <<>>
    /\ resolved = NoCall
    /\ last_op = "__init__"
    /\ last_args = NoArgs
    /\ detector \in { [df |-> df, speed_threshold |-> None, dwell_time_hours |-> dwell,
                       events |-> None] :
                         df \in DetectorTables, dwell \in DwellArguments }

DetectLoitering ==
    /\ detector.events = None
    /\ detector' = [detector EXCEPT !.events =
                       Some(detect_loitering(detector.df, detector.speed_threshold,
                                             detector.dwell_time_hours, None))]
    /\ UNCHANGED <<memvars, graphvars, workers, rerun, validation, sessions>>

SpecDetector == DetectorInit /\ [][DetectLoitering]_vars

(***************************************************************************)
(* SpecDetectorArgs: one detect_loitering call on a table of one vessel    *)
(* whose points are below, at or above 2.0 knots, with each threshold      *)
(* omitted or supplied.                                                    *)
(***************************************************************************)
SlotMinutes == <<0, 30, 60, 120, 180, 240>>

\* 0.5, 2.0 and 2.5 knots
SlotSpeeds == {5, 20, 25}

speed_track(sogs) ==
    [i \in 1..Len(SlotMinutes) |->
        TrackPoint(SlotMinutes[i], "111111111", 1000 + i, 7000 + 2 * i, sogs[i])]

SpeedTables == { speed_track(sogs) : sogs \in [1..Len(SlotMinutes) -> SlotSpeeds] }

SpeedArguments == { None, Some(0), Some(30) }
DwellArgumentsWithZero == { None, Some(0), Some(120) }

DetectorArgsInit ==
    /\ GraphIdle
    /\ WorkersIdle
    /\ RerunIdle
    /\ ValidationIdle
    /\ SessionsIdle
    /\ mm = MemoryManager(max_conversation_history)
    /\ appended = <<>>
    /\ resolved = NoCall
    /\ last_op = "__init__"
    /\ last_args = NoArgs
    /\ detector \in { [df |-> df, speed_threshold |-> speed, dwell_time_hours |-> dwell,
                       events |-> None] :
                         df \in SpeedTables, speed \in SpeedArguments,
                         dwell \in DwellArgumentsWithZero }

SpecDetectorArgs == DetectorArgsInit /\ [][DetectLoitering]_vars

(***************************************************************************)
(* SpecValidator: one PlanValidator.validate call on an intent drawn from  *)
(* time constraints and MMSI strings of every shape the rules tell apart.  *)
(***************************************************************************)
TimeCases ==
    { TimeRelative("last_week"),
      [TimeRelative("last_week") EXCEPT !.relative = None],
      [TimeRelative("last_week") EXCEPT !.relative = Some("")],
      [TimeRelative("last_week") EXCEPT !.start = Some("2020-01-05"),
                                        !.end = Some("2020-01-12")],
      TimeAbsolute("2020-01-05T00:00:00", "2020-01-12T23:59:59"),
      TimeAbsolute("2020-01-05", "2020-01-05T00:00:01"),
      TimeAbsolute("2020-01-12T23:59:59", "2020-01-05"),
      TimeAbsolute("2020-01-05", "2020-01-05T00:00:00"),
      TimeAbsolute("yesterday", "2020-01-12"),
      TimeAbsolute("2020-01-05", "2020-02-30"),
      [TimeAbsolute("2020-01-05", "2020-01-12") EXCEPT !.start = None],
      [TimeAbsolute("2020-01-05", "2020-01-12") EXCEPT !.end = Some("")],
      [TimeAbsolute("2020-01-05", "2020-01-12") EXCEPT !.relative = Some("last_week")],
      [TimeAbsolute("2020-01-12", "2020-01-05") EXCEPT !.relative = Some("last_week")] }

MmsiCases ==
    { None, Some("111111111"), Some("12345678"), Some("1234567890"), Some("12345678a"),
      Some(" 222222222 "), Some("222222222\n"), Some("2222 2222") }

ValidatorCases ==
    { CanonicalIntent("trajectory", "show", "single",
                      << VesselIdentifier(None, mmsi, None) >>, time, "table") :
        mmsi \in MmsiCases, time \in TimeCases }
    \cup
    { CanonicalIntent("trajectory", "show", "multiple",
                      << VesselGood, VesselIdentifier(None, mmsi, None) >>,
                      TimeRelative("last_week"), "table") :
        mmsi \in MmsiCases }

ValidatorInit ==
    /\ GraphIdle
    /\ DetectorIdle
    /\ WorkersIdle
    /\ RerunIdle
    /\ SessionsIdle
    /\ mm = MemoryManager(max_conversation_history)
    /\ appended = <<>>
    /\ resolved = NoCall
    /\ last_op = "__init__"
    /\ last_args = NoArgs
    /\ validation \in { [intent |-> Some(i), errors |-> None] : i \in ValidatorCases }

Validate ==
    /\ validation.intent # None
    /\ validation.errors = None
    /\ validation' = [validation EXCEPT !.errors = Some(validate(validation.intent[1]))]
    /\ UNCHANGED <<memvars, graphvars, detector, workers, rerun, sessions>>

SpecValidator == ValidatorInit /\ [][Validate]_vars

(***************************************************************************)
(* SpecRerun: run_query calls whose collaborator answers are fixed when    *)
(* the call starts, so that a call can be made a second time with the same *)
(* initial state and the same answers.  The stages are those of Spec.      *)
(***************************************************************************)
RerunQueries == {"show its trajectory", "List ships"}

\* what the planner, the validator and the store answer during one run
RerunAnswers ==
    { [planned |-> None, errors |-> <<>>, store_ok |-> TRUE, window |-> Some(DatasetRows)],
      [planned |-> Some(IntentTrajectory),
       errors  |-> <<"vessel_scope is 'all' but vessels list is not empty">>,
       store_ok |-> TRUE, window |-> Some(DatasetRows)],
      [planned |-> Some(IntentListing), errors |-> <<>>, store_ok |-> FALSE,
       window  |-> Some(DatasetRows)],
      [planned |-> Some(IntentTrajectory), errors |-> <<>>, store_ok |-> TRUE,
       window  |-> None],
      [planned |-> Some(IntentTrajectory), errors |-> <<>>, store_ok |-> TRUE,
       window  |-> Some(DatasetRows)],
      [planned |-> Some(IntentLoitering), errors |-> <<>>, store_ok |-> TRUE,
       window  |-> Some(DatasetRows)] }

\* main.run_query up to graph.invoke, for a given query
StartRun(query) ==
    /\ node = "idle"
    /\ runs < MaxRuns
    /\ state' = Some(create_initial_state(query, <<>>, "llama3"))
    /\ node' = "resolve_references"
    /\ runs' = runs + 1
    /\ run_result' = None
    /\ mem_at_start' = memory_manager
    /\ UNCHANGED <<db_manager, services_built, memory_manager, memvars, detector, workers,
                   validation>>

Invoke ==
    \E query \in RerunQueries, answers \in RerunAnswers :
        /\ StartRun(query)
        /\ rerun' = [answers |-> answers, first |-> None]
        /\ UNCHANGED sessions

\* the same call once more: same query, transcript and model, same answers
Reinvoke ==
    /\ run_result # None
    /\ state # None
    /\ StartRun(state[1].user_query)
    /\ rerun' = [rerun EXCEPT !.first = Some([mem_at_start |-> mem_at_start,
                                              result       |-> run_result[1]])]
    /\ UNCHANGED sessions

RerunParseIntent ==
    /\ ParseIntentNode
    /\ state' = Some(parse_intent_node(state[1], built_after_init, rerun.answers.planned))

RerunValidatePlan ==
    /\ ValidatePlanNode
    /\ state' = Some(validate_plan_node(state[1], built_after_init, rerun.answers.errors))

RerunResolveVessels ==
    /\ ResolveVesselsNode
    /\ state' = Some(resolve_vessels_node(state[1], rerun.answers.store_ok))

RerunTrajectoryPipeline ==
    /\ TrajectoryPipelineNode
    /\ state' = Some(trajectory_pipeline_node(state[1], rerun.answers.window))

RerunLoiteringPipeline ==
    /\ LoiteringPipelineNode
    /\ state' = Some(loitering_pipeline_node(state[1], rerun.answers.window))

NextRerun ==
    \/ Invoke
    \/ Reinvoke
    \/ ResolveReferencesNode
    \/ RerunParseIntent
    \/ RerunValidatePlan
    \/ RerunResolveVessels
    \/ RerunTrajectoryPipeline
    \/ RerunLoiteringPipeline
    \/ ResponseBuilderNode
    \/ ReturnResult

SpecRerun == GraphInit /\ [][NextRerun]_vars

(***************************************************************************)
(* SpecSessions: run_query calls made on behalf of two sessions (two       *)
(* clients of api_server).  run_query takes no session, and the graph has  *)
(* the one _memory_manager; `sessions` keeps, beside it, the memory each   *)
(* session would have if only its own runs had updated it.                 *)
(***************************************************************************)
Sessions == {"A", "B"}

\* the contents of the memory behind a handle; an unbuilt handle has no contents yet
MemoryOf(handle) ==
    IF handle = None THEN MemoryManager(max_conversation_history) ELSE handle[1]

\* the run that has just ended updated the memory (response_builder_node ran with
\* an intent and a memory handle)
RunUpdatedMemory ==
    /\ state # None
    /\ InLog(state[1], "Response built successfully")
    /\ memory_manager # None

SessionRun ==
    \E s \in Sessions, query \in RerunQueries, answers \in RerunAnswers :
        /\ StartRun(query)
        /\ rerun' = [answers |-> answers, first |-> None]
        /\ sessions' =
              [current |-> s,
               own |-> IF sessions.current \in Sessions /\ RunUpdatedMemory
                       THEN [sessions.own EXCEPT ![sessions.current] =
                               response_builder_memory(state[1], Some(MemoryOf(@)))]
                       ELSE sessions.own]

NextSessions ==
    \/ SessionRun
    \/ ResolveReferencesNode
    \/ RerunParseIntent
    \/ RerunValidatePlan
    \/ RerunResolveVessels
    \/ RerunTrajectoryPipeline
    \/ RerunLoiteringPipeline
    \/ ResponseBuilderNode
    \/ ReturnResult

SpecSessions == GraphInit /\ [][NextSessions]_vars

(***************************************************************************)
(* SpecConcurrent: two workers finish their runs at the same time and each *)
(* makes the memory update of response_builder_node (graph.py:308-312) on  *)
(* the one MemoryManager of the process.  The code takes no lock, so the   *)
(* statements of add_message (memory_manager.py:41-48) of the two workers  *)
(* interleave: the append, the length test, the evaluation of the slice    *)
(* and the assignment of the slice are separate steps.                     *)
(***************************************************************************)
Workers == {1, 2}

\* the calls a worker makes, in order
WorkerCalls(w) ==
    IF w = 1
    THEN << [op |-> "add_message", role |-> "user", content |-> "show its trajectory",
             vessels |-> <<>>, intent |-> ""],
            [op |-> "add_message", role |-> "assistant", content |-> "Found results",
             vessels |-> <<>>, intent |-> ""],
            [op |-> "update_vessel_context", role |-> "", content |-> "",
             vessels |-> <<"111111111">>, intent |-> ""],
            [op |-> "update_intent_context", role |-> "", content |-> "",
             vessels |-> <<>>, intent |-> "trajectory"] >>
    ELSE << [op |-> "add_message", role |-> "user", content |-> "List ships",
             vessels |-> <<>>, intent |-> ""],
            [op |-> "add_message", role |-> "assistant", content |-> "Found records",
             vessels |-> <<>>, intent |-> ""],
            [op |-> "update_vessel_context", role |-> "", content |-> "",
             vessels |-> <<"111111111", "222222222">>, intent |-> ""],
            [op |-> "update_intent_context", role |-> "", content |-> "",
             vessels |-> <<>>, intent |-> "listing"] >>

ConcurrentInit ==
    /\ GraphIdle
    /\ DetectorIdle
    /\ WorkersIdle
    /\ RerunIdle
    /\ ValidationIdle
    /\ SessionsIdle
    /\ mm \in { MemoryManager(m) : m \in 1..MaxHistory }
    /\ appended = <<>>
    /\ resolved = NoCall
    /\ last_op = "__init__"
    /\ last_args = NoArgs

CurrentCall(w) == WorkerCalls(w)[workers[w].call]
Goto(w, call, step, tmp) ==
    workers' = [workers EXCEPT ![w] = [call |-> call, step |-> step, tmp |-> tmp]]

\* memory_manager.py:41-45: self.conversation_history.append({...})
AppendStep(w) ==
    /\ workers[w].call <= Len(WorkerCalls(w))
    /\ workers[w].step = "idle"
    /\ CurrentCall(w).op = "add_message"
    /\ mm' = [mm EXCEPT !.conversation_history =
                 Append(@, [role |-> CurrentCall(w).role, content |-> CurrentCall(w).content])]
    /\ appended' = Append(appended, [role |-> CurrentCall(w).role,
                                     content |-> CurrentCall(w).content])
    /\ Goto(w, workers[w].call, "test", <<>>)
    /\ UNCHANGED <<resolved, last_op, last_args, graphvars, detector, rerun, validation, sessions>>

\* memory_manager.py:47: if len(self.conversation_history) > self.max_history
TestStep(w) ==
    /\ workers[w].step = "test"
    /\ IF Len(mm.conversation_history) > mm.max_history
       THEN Goto(w, workers[w].call, "slice", <<>>)
       ELSE Goto(w, workers[w].call + 1, "idle", <<>>)
    /\ UNCHANGED <<memvars, graphvars, detector, rerun, validation, sessions>>

\* memory_manager.py:48, right-hand side: self.conversation_history[-self.max_history:]
SliceStep(w) ==
    /\ workers[w].step = "slice"
    /\ Goto(w, workers[w].call, "store", TailSlice(mm.conversation_history, mm.max_history))
    /\ UNCHANGED <<memvars, graphvars, detector, rerun, validation, sessions>>

\* memory_manager.py:48, the assignment self.conversation_history = ...
StoreStep(w) ==
    /\ workers[w].step = "store"
    /\ mm' = [mm EXCEPT !.conversation_history = workers[w].tmp]
    /\ Goto(w, workers[w].call + 1, "idle", <<>>)
    /\ UNCHANGED <<appended, resolved, last_op, last_args, graphvars, detector, rerun, validation, sessions>>

\* update_vessel_context / update_intent_context: one assignment each
UpdateStep(w) ==
    /\ workers[w].call <= Len(WorkerCalls(w))
    /\ workers[w].step = "idle"
    /\ CurrentCall(w).op # "add_message"
    /\ mm' = IF CurrentCall(w).op = "update_vessel_context"
             THEN update_vessel_context(mm, CurrentCall(w).vessels)
             ELSE update_intent_context(mm, CurrentCall(w).intent)
    /\ Goto(w, workers[w].call + 1, "idle", <<>>)
    /\ UNCHANGED <<appended, resolved, last_op, last_args, graphvars, detector, rerun, validation, sessions>>

NextConcurrent ==
    \/ \E w \in Workers : AppendStep(w)
    \/ \E w \in Workers : TestStep(w)
    \/ \E w \in Workers : SliceStep(w)
    \/ \E w \in Workers : StoreStep(w)
    \/ \E w \in Workers : UpdateStep(w)

SpecConcurrent == ConcurrentInit /\ [][NextConcurrent]_vars

(***************************************************************************)
(* Properties of the stage graph (specification Spec)                      *)
(***************************************************************************)
AnalyticalNodes == {"trajectory_pipeline", "loitering_pipeline"}
DownstreamTexts == {"Resolving vessel identifiers", "Fetching trajectory data",
                    "Detecting loitering", "Building response"}
StageErrorTexts == {"Reference resolution failed", "Intent parsing failed",
                    "Validation failed", "Plan validation failed",
                    "Vessel resolution failed", "Trajectory fetch failed",
                    "Loitering detection failed", "Response building failed"}
RanDownstream(s) == \E t \in DownstreamTexts : InLog(s, t)

C2_PostValidationEdge ==
    /\ [][node = "validate_plan" =>
            node' = IF state'[1].error # None \/ state'[1].validation_errors # <<>>
                    THEN "END" ELSE "resolve_vessels"]_vars
    /\ [][node = "END" => node' = "idle"]_vars
    /\ [](state # None /\ (state[1].error # None \/ state[1].validation_errors # <<>>)
            /\ node = "END" /\ ~InLog(state[1], "Plan validated successfully")
          => ~RanDownstream(state[1]))

\* a run ended straight after ValidatePlan because of violations
C2_Witness ==
    /\ node = "END"
    /\ state[1].validation_errors # <<>>
    /\ state[1].execution_log[Len(state[1].execution_log)] = <<"Validating plan">>

PlannerFailed ==
    /\ state # None
    /\ InLog(state[1], "Parsing intent with LLM")
    /\ ~InLog(state[1], "Intent")

\* C4: after a planner failure the run has error set, no intent, no result, runs no
\* stage after ValidatePlan, and returns success = FALSE with error non-null and
\* intent and result null
C4_PlannerFailureIsTerminal ==
    PlannerFailed =>
        /\ state[1].error # None
        /\ state[1].canonical_intent = None
        /\ state[1].result = None
        /\ ~RanDownstream(state[1])
        /\ node \in {"validate_plan", "END", "idle"}
        /\ (node = "idle" /\ run_result # None) =>
              /\ run_result[1].success = FALSE
              /\ run_result[1].error # None
              /\ run_result[1].canonical_intent = None
              /\ run_result[1].result = None

\* a run in which the planner failed has returned its result
C4_Witness ==
    /\ PlannerFailed
    /\ node = "idle"
    /\ run_result # None
    /\ run_result[1].error = Some(<<"Plan validation failed">>)

\* C5: the result of a failed run carries an error recorded by a stage and a trace
\* that starts with the entry of the first stage
C5_FaultsRecordedByStages ==
    (run_result # None /\ ~run_result[1].success) =>
        /\ run_result[1].error[1][1] \in StageErrorTexts
        /\ Len(run_result[1].execution_log) >= 1
        /\ run_result[1].execution_log[1] = <<"Resolving references">>

C7_DomainRouting ==
    state # None =>
        LET s == state[1]
            ranT == InLog(s, "Fetching trajectory data")
            ranL == InLog(s, "Detecting loitering")
        IN  /\ ~(ranT /\ ranL)
            /\ node \in AnalyticalNodes =>
                  /\ ~ranT /\ ~ranL
                  /\ (node = "loitering_pipeline") <=>
                        (s.canonical_intent[1].domain_intent = "loitering")
                  /\ (node = "trajectory_pipeline") <=>
                        (s.canonical_intent[1].domain_intent
                            \in {"trajectory", "listing", "prediction"})
            /\ (node = "response_builder" \/ InLog(s, "Building response")) =>
                  /\ ranL <=> (s.canonical_intent[1].domain_intent = "loitering")
                  /\ ranT <=> (s.canonical_intent[1].domain_intent # "loitering")

\* a prediction query went through the Trajectory stage
C7_Witness ==
    /\ node = "response_builder"
    /\ state[1].canonical_intent[1].domain_intent = "prediction"
    /\ InLog(state[1], "Fetching trajectory data")

(***************************************************************************)
(* Properties of validation (specification SpecShipped)                    *)
(***************************************************************************)
\* ValidatePlan ran on a structured intent in the run the state belongs to
Validated ==
    /\ state # None
    /\ InLog(state[1], "Validating plan")
    /\ state[1].canonical_intent # None

CardinalityMessages ==
    { "vessel_scope is 'single' but vessels list does not contain exactly 1 vessel",
      "vessel_scope is 'multiple' but vessels list contains less than 2 vessels",
      "vessel_scope is 'all' but vessels list is not empty" }

\* the scope/list cardinality rule as the specification words it
ScopeMatches(intent) ==
    CASE intent.vessel_scope = "single"   -> Len(intent.vessels) = 1
      [] intent.vessel_scope = "multiple" -> Len(intent.vessels) >= 2
      [] intent.vessel_scope = "all"      -> Len(intent.vessels) = 0

Listed(errors, msgs) == \E k \in 1..Len(errors) : errors[k] \in msgs

\* C12: the violation list of one validate call is the messages of rule 1, then of
\* rule 2, ... then of rule 7, every broken rule contributing its messages, and
\* the run's error carries that whole list
C12_AllViolationsAccumulate ==
    Validated =>
        LET intent == state[1].canonical_intent[1]
        IN  /\ state[1].validation_errors =
                   vessel_scope_errors(intent)
                \o mmsi_errors(intent.vessels)
                \o time_errors(intent.time_constraint)
                \o spatial_errors(intent.spatial_constraint)
                \o execution_mode_errors(intent.execution_mode)
                \o compatibility_errors(intent)
                \o keyword_errors(str_to_dict(intent), 1)
            /\ state[1].error = Some(<<"Validation failed", state[1].validation_errors>>)

\* an intent breaking the cardinality, MMSI, time, spatial, execution-mode and
\* compatibility rules at once was validated and all six messages are listed
C12_Witness ==
    /\ Validated
    /\ node = "END"
    /\ LET intent == state[1].canonical_intent[1]
           errors == state[1].validation_errors
       IN  /\ intent.vessels = <<VesselShort>>
           /\ Len(errors) >= 7
           /\ errors[1] = "vessel_scope is 'multiple' but vessels list contains less than 2 vessels"
           /\ errors[2] = "Invalid MMSI format: 12345678"
           /\ errors[3] = "Invalid time range: start must be before end"
           /\ errors[4] = "Spatial type is 'coastal_distance' but distance_nm is invalid"
           /\ errors[5] = "Execution mode is 'model_inference' but model_name not provided"
           /\ errors[6] = "Incompatible: domain_intent 'loitering' with task_intent 'list'"

\* C13: validate lists a cardinality violation exactly when the vessel list does
\* not match the scope (single: 1, multiple: at least 2, all: 0), and an intent
\* the graph takes to ResolveVessels has a matching list
C13_CardinalityRule ==
    Validated =>
        LET intent == state[1].canonical_intent[1]
        IN  /\ Listed(state[1].validation_errors, CardinalityMessages)
                  <=> ~ScopeMatches(intent)
            /\ node = "resolve_vessels" => ScopeMatches(intent)

\* scope multiple with one identifier was validated and reported
C13_Witness ==
    /\ Validated
    /\ state[1].canonical_intent[1].vessel_scope = "multiple"
    /\ Len(state[1].canonical_intent[1].vessels) = 1
    /\ Listed(state[1].validation_errors,
              {"vessel_scope is 'multiple' but vessels list contains less than 2 vessels"})

\* the serialised intent holds a denylisted token
HoldsDenylisted(intent) ==
    \E k \in 1..Len(unsafe_keywords) : Contains(str_to_dict(intent), unsafe_keywords[k])

\* C14: a validated intent whose serialised form holds a denylisted token has at
\* least one violation, its run ends after ValidatePlan and runs no later stage
C14_DenylistedNeverPasses ==
    (Validated /\ HoldsDenylisted(state[1].canonical_intent[1])) =>
        /\ state[1].validation_errors # <<>>
        /\ state[1].error # None
        /\ node \in {"END", "idle"}
        /\ ~RanDownstream(state[1])

\* an intent otherwise in order, with a vessel named '__import__', was refused
C14_Witness ==
    /\ Validated
    /\ node = "END"
    /\ state[1].canonical_intent[1].vessels = <<VesselNamed, VesselGood, VesselUnknown>>
    /\ state[1].canonical_intent[1].vessel_scope = "multiple"
    /\ Listed(state[1].validation_errors, {"Unsafe keyword detected: import"})
    /\ Listed(state[1].validation_errors, {"Unsafe keyword detected: __"})
    /\ ~Listed(state[1].validation_errors, CardinalityMessages)

\* the string values the planner put into the intent
FieldValues(intent) ==
    LET opt(o) == IF o = None THEN {} ELSE {o[1]}
    IN  {intent.domain_intent, intent.task_intent, intent.vessel_scope,
         intent.time_constraint.mode, intent.spatial_constraint.type,
         intent.execution_mode.data_source, intent.output.format}
        \cup opt(intent.time_constraint.relative) \cup opt(intent.time_constraint.start)
        \cup opt(intent.time_constraint.end)
        \cup opt(intent.spatial_constraint.polygon_type)
        \cup opt(intent.spatial_constraint.polygon_id)
        \cup opt(intent.execution_mode.model_name)
        \cup UNION { opt(intent.vessels[k].imo) \cup opt(intent.vessels[k].mmsi)
                        \cup opt(intent.vessels[k].name) : k \in 1..Len(intent.vessels) }

\* the seven rules as the specification words them
SatisfiesAllRules(intent) ==
    LET tc == intent.time_constraint
        sc == intent.spatial_constraint
    IN  /\ ScopeMatches(intent)
        /\ \A k \in 1..Len(intent.vessels) :
              intent.vessels[k].mmsi # None =>
                 LET m == Chars(intent.vessels[k].mmsi[1])
                 IN  Len(m) = 9 /\ \A j \in 1..9 : IsDigit(m[j])
        /\ tc.mode = "relative" => Truthy(tc.relative)
        /\ tc.mode = "absolute" => validate_time_range(tc.start, tc.end)
        /\ sc.type = "coastal_distance" => (sc.distance_nm # None /\ sc.distance_nm[1] > 0)
        /\ sc.type = "polygon" => Truthy(sc.polygon_type)
        /\ intent.execution_mode.data_source = "model_inference" =>
              Truthy(intent.execution_mode.model_name)
        /\ intent.domain_intent = "loitering" => intent.task_intent \in {"detect", "show"}
        /\ intent.domain_intent = "prediction" => intent.task_intent = "predict"
        /\ \A v \in FieldValues(intent) : \A k \in 1..Len(unsafe_keywords) :
              ~Contains(v, unsafe_keywords[k])

\* C15: validate returns the empty list for an intent that satisfies all seven rules
C15_ValidIntentHasNoViolations ==
    (Validated /\ state[1].error # Some(<<"Plan validation failed">>)
        /\ SatisfiesAllRules(state[1].canonical_intent[1]))
    => state[1].validation_errors = <<>>

\* C17: the run of the loitering query over the two-vessel table returns success
\* and exactly one loitering event, of vessel 111111111
C17_EndToEndLoitering ==
    (node = "idle" /\ run_result # None
        /\ run_result[1].canonical_intent = Some(IntentLoitering))
    => /\ run_result[1].success
       /\ run_result[1].result # None
       /\ run_result[1].result[1].count = 1
       /\ run_result[1].result[1].data[1].mmsi = "111111111"

\* the intent whose only identifier is not in the dataset
IntentUnknownVessel ==
    CanonicalIntent("trajectory", "show", "single", <<VesselUnknown>>,
                    TimeRelative("last_week"), "table")

DwellInForce ==
    IF detector.dwell_time_hours = None THEN loitering_dwell_time_hours
    ELSE detector.dwell_time_hours[1]

\* the slow points of vessel v in the table
SlowPoints(v) ==
    { detector.df[i] : i \in { j \in 1..Len(detector.df) :
          detector.df[j].mmsi = v /\ detector.df[j].sog < loitering_speed_threshold_knots } }

\* a and b are slow points of v next to each other in time
NextInTime(v, a, b) ==
    /\ a.timestamp < b.timestamp
    /\ ~\E c \in SlowPoints(v) : a.timestamp < c.timestamp /\ c.timestamp < b.timestamp

\* no gap of more than one hour between p and q
Unbroken(v, p, q) ==
    \A a, b \in SlowPoints(v) :
        (NextInTime(v, a, b) /\ p.timestamp <= a.timestamp /\ b.timestamp <= q.timestamp)
            => b.timestamp - a.timestamp <= segment_gap

\* the segments of v: maximal runs of slow points without such a gap
SegmentsOf(v) ==
    { { q \in SlowPoints(v) : IF p.timestamp <= q.timestamp THEN Unbroken(v, p, q)
                              ELSE Unbroken(v, q, p) } : p \in SlowPoints(v) }

Earliest(seg) == CHOOSE t \in { p.timestamp : p \in seg } : \A p \in seg : t <= p.timestamp
Latest(seg)   == CHOOSE t \in { p.timestamp : p \in seg } : \A p \in seg : t >= p.timestamp

\* what the events are expected to be: one per segment of at least two points
\* whose span reaches the dwell threshold
ExpectedEvents ==
    { [mmsi |-> v, start_time |-> Earliest(seg), end_time |-> Latest(seg),
       dwell_time_hours |-> Latest(seg) - Earliest(seg), num_points |-> Cardinality(seg)] :
        <<v, seg>> \in { <<w, sg>> \in
              UNION { {w} \X SegmentsOf(w) : w \in {"111111111", "222222222"} } :
                 Cardinality(sg) >= 2 /\ Latest(sg) - Earliest(sg) >= DwellInForce } }

EventSummary(e) ==
    [mmsi |-> e.mmsi, start_time |-> e.start_time, end_time |-> e.end_time,
     dwell_time_hours |-> e.dwell_time_hours, num_points |-> e.num_points]

\* C16: the detector returns exactly one event per segment that has at least two
\* points and a span of at least the dwell threshold, with the segment's point
\* count and span, and no event for any other segment
C16_EventIffSegmentQualifies ==
    detector.events # None =>
        LET events == detector.events[1]
        IN  /\ { EventSummary(events[k]) : k \in 1..Len(events) } = ExpectedEvents
            /\ Len(events) = Cardinality(ExpectedEvents)

\* five slow points an hour apart spanning exactly the default threshold gave one
\* event of five points and four hours
C16_Witness ==
    /\ detector.events # None
    /\ detector.dwell_time_hours = None
    /\ detector.df = slow_track("111111111", {0, 60, 120, 180, 240})
    /\ Len(detector.events[1]) = 1
    /\ detector.events[1][1].num_points = 5
    /\ detector.events[1][1].dwell_time_hours = loitering_dwell_time_hours

(***************************************************************************)
(* Properties of concurrent memory updates (specification SpecConcurrent)  *)
(***************************************************************************)
\* one whole call applied to a memory
ApplyCall(self, c) ==
    CASE c.op = "add_message"           -> add_message(self, c.role, c.content)
      [] c.op = "update_vessel_context" -> update_vessel_context(self, c.vessels)
      [] c.op = "update_intent_context" -> update_intent_context(self, c.intent)

\* the memories that executing the calls one at a time can leave, each worker's
\* calls in its own order
RECURSIVE SerialOutcomes(_, _, _)
SerialOutcomes(self, calls1, calls2) ==
    IF calls1 = <<>> /\ calls2 = <<>> THEN {self}
    ELSE (IF calls1 = <<>> THEN {}
          ELSE SerialOutcomes(ApplyCall(self, Head(calls1)), Tail(calls1), calls2))
         \cup
         (IF calls2 = <<>> THEN {}
          ELSE SerialOutcomes(ApplyCall(self, Head(calls2)), calls1, Tail(calls2)))

WorkersDone == \A w \in Workers : workers[w].call > Len(WorkerCalls(w))

\* C20: when both workers are done the transcript is within the maximum, holds
\* the entry appended last, and the memory is one that some serial order of the
\* calls leaves
C20_MemoryCallsSerialized ==
    WorkersDone =>
        /\ Len(mm.conversation_history) <= mm.max_history
        /\ \E k \in 1..Len(mm.conversation_history) :
              mm.conversation_history[k] = appended[Len(appended)]
        /\ mm \in SerialOutcomes(MemoryManager(mm.max_history),
                                 WorkerCalls(1), WorkerCalls(2))

(***************************************************************************)
(* Properties of re-invocation (specification SpecRerun)                   *)
(***************************************************************************)
\* a re-invocation has returned: the first run's record and the second's result
Reinvoked == node = "idle" /\ rerun.first # None /\ run_result # None

RECURSIVE WithoutResolved(_)
WithoutResolved(log) ==
    IF log = <<>> THEN <<>>
    ELSE IF Head(log)[1] = "Resolved references" THEN WithoutResolved(Tail(log))
         ELSE <<Head(log)>> \o WithoutResolved(Tail(log))

\* the result handed back, its trace set aside
Outcome(r) == [r EXCEPT !.execution_log = <<>>]

ValidateReturned == validation.errors # None

\* an optional text that is there and is not the empty text
Present(opt) == opt # None /\ opt[1] # ""

TimeMessages ==
    { "Time mode is 'relative' but no relative expression provided",
      "Time mode is 'absolute' but start/end not provided",
      "Invalid time range: start must be before end" }

\* the parsed start strictly precedes the parsed end
StartPrecedesEnd(tc) ==
    /\ parse_iso(tc.start[1]) # None
    /\ parse_iso(tc.end[1]) # None
    /\ datetime_less(parse_iso(tc.start[1])[1], parse_iso(tc.end[1])[1])

\* the time rule as the specification words it
TimeRuleBroken(tc) ==
    \/ tc.mode = "relative" /\ ~Present(tc.relative)
    \/ tc.mode = "absolute" /\ (~Present(tc.start) \/ ~Present(tc.end))
    \/ tc.mode = "absolute" /\ Present(tc.start) /\ Present(tc.end) /\ ~StartPrecedesEnd(tc)

\* C22: validate lists a time violation exactly when the mode is relative without
\* a relative expression, or absolute with start or end missing, or absolute with
\* both present and the parsed start not strictly before the parsed end
C22_TimeViolationExactly ==
    ValidateReturned =>
        (Listed(validation.errors[1], TimeMessages)
            <=> TimeRuleBroken(validation.intent[1].time_constraint))

\* an absolute range whose start equals its end was validated and reported
C22_Witness ==
    /\ ValidateReturned
    /\ LET tc == validation.intent[1].time_constraint
       IN  /\ tc.mode = "absolute"
           /\ Present(tc.start) /\ Present(tc.end)
           /\ parse_iso(tc.start[1]) # None
           /\ parse_iso(tc.start[1]) = parse_iso(tc.end[1])
    /\ Listed(validation.errors[1], {"Invalid time range: start must be before end"})

\* exactly one of {relative expression, absolute start and end} is populated, the
\* one the mode names
TimeFieldsMatchMode(tc) ==
    /\ tc.mode = "relative" => tc.relative # None /\ tc.start = None /\ tc.end = None
    /\ tc.mode = "absolute" => tc.start # None /\ tc.end # None /\ tc.relative = None

NineDigits(text) == Len(text) = 9 /\ \A i \in 1..9 : IsDigit(Chars(text)[i])

\* C24: for every identifier with an MMSI, validate lists no 'Invalid MMSI format'
\* violation for it if and only if the MMSI is exactly 9 decimal digits
C24_MmsiExactlyNineDigits ==
    ValidateReturned =>
        \A k \in 1..Len(validation.intent[1].vessels) :
            LET mmsi == validation.intent[1].vessels[k].mmsi
            IN  mmsi # None =>
                    (~Listed(validation.errors[1], {"Invalid MMSI format: " \o mmsi[1]})
                        <=> NineDigits(mmsi[1]))

(***************************************************************************)
(* Properties of the detector's thresholds (specification SpecDetectorArgs)*)
(***************************************************************************)
\* the speed threshold the caller asked for: the argument, or the default
SpeedAsked ==
    IF detector.speed_threshold = None THEN loitering_speed_threshold_knots
    ELSE detector.speed_threshold[1]

\* the rows of the table below the speed threshold
BelowThreshold == { i \in 1..Len(detector.df) : detector.df[i].sog < SpeedAsked }

\* the rows below the threshold that lie within the event's vessel and time span
CountedBy(e) ==
    { i \in BelowThreshold :
         /\ detector.df[i].mmsi = e.mmsi
         /\ e.start_time <= detector.df[i].timestamp
         /\ detector.df[i].timestamp <= e.end_time }

RECURSIVE Total(_, _)
Total(rows, field) ==
    IF rows = {} THEN 0
    ELSE LET i == CHOOSE x \in rows : TRUE
         IN  detector.df[i][field] + Total(rows \ {i}, field)

\* C25: points at or above the speed threshold are discarded before segmentation:
\* an event's point count, centroid, mean speed and start/end timestamps are those
\* of the points below the threshold within its span, and without any point below
\* the threshold the result is empty (threshold omitted or supplied non-zero; a
\* supplied 0 is the case of C27)
C25_FastPointsDiscarded ==
    (detector.events # None /\ detector.speed_threshold # Some(0)) =>
        LET events == detector.events[1]
        IN  /\ \A k \in 1..Len(events) :
                  LET e == events[k]
                      n == Cardinality(CountedBy(e))
                  IN  /\ e.num_points = n
                      /\ e.avg_speed = <<Total(CountedBy(e), "sog"), n>>
                      /\ e.center_latitude = <<Total(CountedBy(e), "latitude"), n>>
                      /\ e.center_longitude = <<Total(CountedBy(e), "longitude"), n>>
                      /\ \E i \in CountedBy(e) : detector.df[i].timestamp = e.start_time
                      /\ \E i \in CountedBy(e) : detector.df[i].timestamp = e.end_time
            /\ BelowThreshold = {} => events = <<>>

\* with the default speed threshold an event was emitted over a span that holds a
\* point exactly at the threshold, which it does not count; a faster point follows
C25_Witness ==
    /\ detector.events # None
    /\ detector.speed_threshold = None
    /\ detector.dwell_time_hours = Some(120)
    /\ Len(detector.events[1]) = 1
    /\ detector.df[2].sog = loitering_speed_threshold_knots
    /\ detector.df[5].sog > loitering_speed_threshold_knots
    /\ detector.events[1][1].start_time = 0
    /\ detector.events[1][1].end_time = 120
    /\ detector.events[1][1].num_points = 3

\* rows i and j are below the speed threshold and next to each other among them
AdjacentBelow(i, j) ==
    /\ i \in BelowThreshold /\ j \in BelowThreshold
    /\ detector.df[i].timestamp < detector.df[j].timestamp
    /\ ~\E k \in BelowThreshold :
          /\ detector.df[i].timestamp < detector.df[k].timestamp
          /\ detector.df[k].timestamp < detector.df[j].timestamp

\* C27: the detector works with the thresholds the caller supplies, 0 included, and
\* with the defaults only when an argument is omitted: events count the points
\* below the supplied speed threshold and none exist without such a point, every
\* event lasts at least the supplied dwell threshold, and two neighbouring points
\* no more than an hour apart whose distance reaches the supplied dwell threshold
\* are inside an event
C27_SuppliedThresholdsUsed ==
    detector.events # None =>
        LET events == detector.events[1]
        IN  /\ \A k \in 1..Len(events) :
                  /\ events[k].num_points = Cardinality(CountedBy(events[k]))
                  /\ events[k].dwell_time_hours >= DwellInForce
            /\ BelowThreshold = {} => events = <<>>
            /\ \A i, j \in 1..Len(detector.df) :
                  (/\ AdjacentBelow(i, j)
                   /\ detector.df[j].timestamp - detector.df[i].timestamp <= segment_gap
                   /\ detector.df[j].timestamp - detector.df[i].timestamp >= DwellInForce)
                  => \E k \in 1..Len(events) :
                        /\ events[k].start_time <= detector.df[i].timestamp
                        /\ detector.df[j].timestamp <= events[k].end_time

(***************************************************************************)
(* Segmentation (specification SpecDetector)                               *)
(***************************************************************************)
InSpan(e, p) == e.start_time <= p.timestamp /\ p.timestamp <= e.end_time

\* C26: per vessel the slow points are split, in time order, exactly at the gaps
\* of more than 1.0 hour: an event never spans such a gap, never stops at a gap
\* of at most 1.0 hour, counts only points of its own vessel, lasts at least the
\* dwell threshold, and every maximal run of two or more points whose own span
\* reaches the dwell threshold has its event
C26_SegmentsSplitAtGaps ==
    detector.events # None =>
        LET events == detector.events[1]
        IN  /\ \A k \in 1..Len(events) :
                  LET e == events[k]
                      v == e.mmsi
                  IN  /\ \A a, b \in SlowPoints(v) :
                            NextInTime(v, a, b) =>
                               /\ (InSpan(e, a) /\ InSpan(e, b))
                                     => b.timestamp - a.timestamp <= segment_gap
                               /\ (b.timestamp - a.timestamp <= segment_gap)
                                     => (InSpan(e, a) <=> InSpan(e, b))
                      /\ e.num_points = Cardinality({ p \in SlowPoints(v) : InSpan(e, p) })
                      /\ e.end_time - e.start_time >= DwellInForce
            /\ \A v \in {"111111111", "222222222"} :
                  \A seg \in SegmentsOf(v) :
                     (Cardinality(seg) >= 2 /\ Latest(seg) - Earliest(seg) >= DwellInForce)
                        => \E k \in 1..Len(events) :
                              /\ events[k].mmsi = v
                              /\ events[k].start_time = Earliest(seg)
                              /\ events[k].end_time = Latest(seg)

\* a sequence an hour apart with one 2-hour gap in it, beside points of a second
\* vessel that fall into that gap: two segments, of which only the one spanning
\* the supplied 2-hour threshold gave an event
C26_Witness ==
    /\ detector.events # None
    /\ detector.dwell_time_hours = Some(120)
    /\ detector.df = sort_values(slow_track("111111111", {0, 60, 120, 240, 300})
                                 \o slow_track("222222222", {90, 150}))
    /\ Len(detector.events[1]) = 1
    /\ detector.events[1][1].mmsi = "111111111"
    /\ detector.events[1][1].start_time = 0
    /\ detector.events[1][1].end_time = 120
    /\ detector.events[1][1].num_points = 3

(***************************************************************************)
(* Further properties of the stage graph (specification Spec)              *)
(***************************************************************************)
\* C28: after ParseIntent failed the graph goes on to ValidatePlan, which faults on
\* the missing intent and overwrites error: until then error is the planner's
\* message, from then on, and in what the caller gets back, it is 'Plan
\* validation failed'
C28_ValidationOverwritesPlannerError ==
    /\ [](PlannerFailed =>
            /\ node = "validate_plan" => state[1].error = Some(<<"Intent parsing failed">>)
            /\ InLog(state[1], "Validating plan")
                  => state[1].error = Some(<<"Plan validation failed">>)
            /\ (node = "idle" /\ run_result # None)
                  => run_result[1].error = Some(<<"Plan validation failed">>))
    /\ [][node = "parse_intent" => node' \in {"parse_intent", "validate_plan"}]_vars

\* ValidatePlan has just run after a planner failure and replaced the message
C28_Witness ==
    /\ PlannerFailed
    /\ node = "END"
    /\ InLog(state[1], "Validating plan")
    /\ state[1].error = Some(<<"Plan validation failed">>)

\* the vessel lists ResolveVessels can derive from the intent and the store's
\* answers alone (a store fault under scope 'all' leaves the initial empty list)
VesselsOfIntent(intent) ==
    IF intent.vessel_scope = "all" THEN {get_unique_vessels, <<>>}
    ELSE { resolve(intent.vessels, store_ok) : store_ok \in BOOLEAN }

\* C29: the ResolveReferences step changes no field of the run state other than
\* the trace, and the vessel list the Trajectory or Loitering stage works with is
\* the one derived from the intent, whether or not a reference was resolved
C29_ResolutionOnlyTraced ==
    /\ [][(node = "resolve_references" /\ node' = "parse_intent")
             => state'[1] = [state[1] EXCEPT !.execution_log = state'[1].execution_log]]_vars
    /\ [](node \in {"trajectory_pipeline", "loitering_pipeline"}
             => state[1].vessel_ids \in VesselsOfIntent(state[1].canonical_intent[1]))

C30_ServicesInitializedTogether ==
    /\ [](db_manager # "None" => (services_built /\ memory_manager # None))
    /\ [][db_manager # "None" => db_manager' = db_manager]_vars
    /\ [][memory_manager # None => memory_manager' # None]_vars

====
